---- MODULE Spec2Model ----
(***************************************************************************)
(* Model of the quickjs-wasm-java native library (wasm_lib, wasm_macros):  *)
(* the value proxy conversion, the promise / completable-future bridge and *)
(* the context re-entrancy stack.                                          *)
(*                                                                         *)
(* Engine values are records tagged by t; compound values are references   *)
(* (t = "ref") into the engine heap.  Optional values (a hidden property   *)
(* that may be absent, Option<..>) are sequences of length 0 or 1.         *)
(***************************************************************************)
EXTENDS Integers, Sequences, FiniteSets, TLC

VARIABLES
    heap,       \* engine objects, indexed by object id
    boxes,      \* Box::into_raw allocations handed out as u64 pointers
    jobs,       \* the engine's pending job queue
    nfut,       \* number of futures the host has allocated
    creates,    \* log of create_completable_future calls
    calls,      \* log of JavaPromise::call runs (settlement callbacks)
    made,       \* log of promise_create calls: what the host got back
    convLog,    \* log of boundary conversions: engine value -> result
    stack,      \* CONTEXT_STACK (context.rs)
    frames,     \* boundary calls in flight, outermost first
    scopes,     \* per context: evaluation scopes (Ctx) currently open
    exitLog,    \* last with_context exit: stack before entry / after exit
    trapped,    \* a second scope for one context was refused by the engine
    globals,    \* the global the host set with set_global, if any
    closed,     \* the handles released by a close export
    restores,   \* the handle read last and how often in a row it was read
    errors,     \* error! records written by the host function adapter
    aborted,    \* a boundary call ended in a panic or a memory fault
    last        \* outcome of the most recent boundary call, as the host saw it

bridgeVars == <<heap, boxes, jobs, nfut, creates, calls, made, convLog>>
ctxVars == <<stack, frames, scopes, exitLog, trapped>>
hostVars == <<globals, closed, restores, errors, aborted, last>>
vars == <<heap, boxes, jobs, nfut, creates, calls, made, convLog,
          stack, frames, scopes, exitLog, trapped,
          globals, closed, restores, errors, aborted, last>>

(***************************************************************************)
(* Bounds of the model.                                                    *)
(***************************************************************************)
MaxHeap == 2
MaxPromises == 1
MaxBoxes == 2
MaxReactions == 4
MaxDepth == 3
MaxContexts == 2
MaxNest == 2
MaxUses == 2
MaxErrors == 2
MaxElems == 4
\* The width of a pointer and of a length in bits.  The module is built for
\* 32-bit addresses and packs two of them into a 64-bit word; the model
\* keeps the layout, a word of twice the width, at a width it can enumerate.
PtrBits == 4

None == <<>>
Some(x) == <<x>>

(***************************************************************************)
(* Engine values.                                                          *)
(***************************************************************************)
VNull == [t |-> "null"]
VUndefined == [t |-> "undefined"]
VInt(i) == [t |-> "int", i |-> i]
VFloat(f) == [t |-> "float", f |-> f]
VBool(b) == [t |-> "bool", b |-> b]
VString(s) == [t |-> "string", s |-> s]
VSymbol == [t |-> "symbol"]
VRef(id) == [t |-> "ref", id |-> id]

(***************************************************************************)
(* JSJavaProxy, the tagged union crossing the boundary.                    *)
(***************************************************************************)
PNull == [t |-> "Null"]
PUndefined == [t |-> "Undefined"]
PString(s) == [t |-> "String", s |-> s]
PInt(i) == [t |-> "Int", i |-> i]
PFloat(f) == [t |-> "Float", f |-> f]
PBoolean(b) == [t |-> "Boolean", b |-> b]
PArray(elems) == [t |-> "Array", elems |-> elems]
PNativeArray(ptr) == [t |-> "NativeArray", ptr |-> ptr]
PObject(props) == [t |-> "Object", props |-> props]
PNativeObject(ptr) == [t |-> "NativeObject", ptr |-> ptr]
PFunction(name, ptr) == [t |-> "Function", name |-> name, ptr |-> ptr]
PJavaFunction(c, f) == [t |-> "JavaFunction", ctx |-> c, fn |-> f]
PException(msg, st) == [t |-> "Exception", msg |-> msg, stacktrace |-> st]
PCompletableFuture(fut, ptr) == [t |-> "CompletableFuture", fut |-> fut, ptr |-> ptr]

(***************************************************************************)
(* Engine objects.                                                         *)
(***************************************************************************)
ArrayObj(elems) == [kind |-> "array", elems |-> elems]
ObjectObj(props) == [kind |-> "object", props |-> props]
FunctionObj(name) == [kind |-> "function", name |-> name]
\* Function::new::<JSJavaProxy, JavaFunction>: a native function calling the host
HostFunctionObj(c, f) == [kind |-> "function", name |-> "", host |-> [ctx |-> c, fn |-> f]]
ErrorObj(message, stk) == [kind |-> "error", message |-> message, stk |-> stk]
\* A promise: its state and result, the two hidden properties the bridge
\* stores on it, and the reactions registered with then / catch.
PromiseObj == [kind |-> "promise", state |-> "pending", value |-> VUndefined,
               cf |-> None, pc |-> None, reactions |-> <<>>]

\* Value::is_promise, is_function, is_exception, is_array, is_object
IsKind(h, v, k) == v.t = "ref" /\ h[v.id].kind = k
IsObject(h, v) == v.t = "ref"

\* Object::get(key): the property if defined, undefined otherwise
GetProp(h, v, key) ==
    IF IsKind(h, v, "object") /\ key \in DOMAIN h[v.id].props
    THEN h[v.id].props[key]
    ELSE VUndefined

(***************************************************************************)
(* The machine state threaded through the conversion code: the operators   *)
(* below take it as m and return the state they leave behind.              *)
(***************************************************************************)
Machine == [heap |-> heap, boxes |-> boxes, jobs |-> jobs, nfut |-> nfut,
            creates |-> creates]

Ok(m, p) == [ok |-> TRUE, proxy |-> p, m |-> m]
Err(m, e) == [ok |-> FALSE, proxy |-> PException(e, ""), m |-> m]

\* Box::into_raw(Box::new(x)) as u64: a fresh address
NewPtr(m) == Len(m.boxes) + 1
BoxShared(m, b) ==
    IF \E i \in DOMAIN m.boxes : m.boxes[i] = b THEN m ELSE [m EXCEPT !.boxes = Append(@, b)]
BoxNew(m, b) == [m EXCEPT !.boxes = Append(@, b)]
Persistent(ty, id) == [ty |-> ty, ref |-> id]
\* PromiseContainer::new: settle tells whether resolve / reject are Some
PromiseContainer(id, settle) == [ty |-> "PromiseContainer", ref |-> id, settle |-> settle]

\* One of the two callbacks the bridge registers (struct JavaPromise)
JavaPromise(fut, reject) == [fut |-> fut, reject |-> reject]

ThenEager(m, id, onF, onR) ==
    [m EXCEPT !.jobs = Append(@, [cb |-> onF, arg |-> m.heap[id].value])]

\* promise.then(onF, onR) / promise.catch(onR): a pending promise keeps the
\* reaction, a settled one enqueues its reaction job at once.
Then(m, id, onF, onR) ==
    LET p == m.heap[id] IN
    CASE p.state = "pending" ->
            [m EXCEPT !.heap[id].reactions = Append(@, [onF |-> onF, onR |-> onR])]
      [] p.state = "resolved" ->
            [m EXCEPT !.jobs = Append(@, [cb |-> onF, arg |-> p.value])]
      [] p.state = "rejected" ->
            [m EXCEPT !.jobs = Append(@, [cb |-> onR, arg |-> p.value])]

\* promise.get(JS_PROMISE_CONTAINER_PTR_FIELD)
ContainerField(p) == p.pc

FutureFieldLost(p) == None
\* promise.get(JAVA_COMPLETABLE_FUTURE_PTR_FIELD)
FutureField(p) == p.cf

\* create_completable_future(context_ptr, promise_ptr): the host allocates
\* the next future and returns its id
HostCreateFuture(m, ptr) ==
    [m EXCEPT !.nfut = @ + 1,
              !.creates = Append(@, [ptr |-> ptr, fut |-> m.nfut + 1])]

ConvertPromise(m, id) ==
    LET hasPc == ContainerField(m.heap[id]) # None
        ptr == IF hasPc THEN ContainerField(m.heap[id])[1] ELSE NewPtr(m)
        m1 == IF hasPc THEN m
              ELSE [BoxNew(m, PromiseContainer(id, FALSE))
                        EXCEPT !.heap[id].pc = Some(ptr)]
        hasCf == FutureField(m1.heap[id]) # None
        fut == IF hasCf THEN FutureField(m1.heap[id])[1] ELSE m1.nfut + 1
        m2 == IF hasCf THEN m1
              ELSE [HostCreateFuture(m1, ptr) EXCEPT !.heap[id].cf = Some(fut)]
        m3 == Then(m2, id, Some(JavaPromise(fut, FALSE)), Some(JavaPromise(fut, TRUE)))
        m4 == Then(m3, id, None, Some(JavaPromise(fut, TRUE)))
    IN Ok(m4, PCompletableFuture(fut, ptr))

ConvertFunction(m, id) ==
    Ok(BoxNew(m, Persistent("Function", id)), PFunction(m.heap[id].name, NewPtr(m)))

ConvertException(m, id) ==
    LET e == m.heap[id] IN
    Ok(m, PException(IF e.message = None THEN "<No exception message>" ELSE e.message[1],
                     IF e.stk = None THEN "<No stacktrace>" ELSE e.stk[1]))

ConvertArrayInline(m, id) ==
    Ok(m, PArray([i \in DOMAIN m.heap[id].elems |-> PInt(m.heap[id].elems[i].i)]))
ConvertArray(m, id) ==
    Ok(BoxNew(m, Persistent("Array", id)), PNativeArray(NewPtr(m)))

ConvertObject(m, id) ==
    Ok(BoxNew(m, Persistent("Object", id)), PNativeObject(NewPtr(m)))

ConvertUnknownAsUndefined(m, v) == Ok(m, PUndefined)
\* No classification matched: error!(..) and Err(rquickjs::Error::Unknown)
ConvertUnknown(m, v) == Err(m, "Unknown")

ClassifyObjectFirst(h, v) ==
    IF v.t = "null" THEN "null"
    ELSE IF v.t = "undefined" THEN "undefined"
    ELSE IF IsObject(h, v) THEN "object"
    ELSE IF IsKind(h, v, "promise") THEN "promise"
    ELSE IF IsKind(h, v, "function") THEN "function"
    ELSE IF v.t = "string" THEN "string"
    ELSE IF v.t = "int" THEN "int"
    ELSE IF v.t = "float" THEN "float"
    ELSE IF v.t = "bool" THEN "bool"
    ELSE IF IsKind(h, v, "error") THEN "exception"
    ELSE IF IsKind(h, v, "array") THEN "array"
    ELSE "unknown"
\* The if / else if chain of JSJavaProxy::convert: the first test that holds
\* decides.  is_object holds for every engine object, promises, functions,
\* errors and arrays included, and is tested last.
Classify(h, v) ==
    IF v.t = "null" THEN "null"
    ELSE IF v.t = "undefined" THEN "undefined"
    ELSE IF IsKind(h, v, "promise") THEN "promise"
    ELSE IF IsKind(h, v, "function") THEN "function"
    ELSE IF v.t = "string" THEN "string"
    ELSE IF v.t = "int" THEN "int"
    ELSE IF v.t = "float" THEN "float"
    ELSE IF v.t = "bool" THEN "bool"
    ELSE IF IsKind(h, v, "error") THEN "exception"
    ELSE IF IsKind(h, v, "array") THEN "array"
    ELSE IF IsObject(h, v) THEN "object"
    ELSE "unknown"

\* JSJavaProxy::convert
Convert(m, v) ==
    CASE Classify(m.heap, v) = "null" -> Ok(m, PNull)
      [] Classify(m.heap, v) = "undefined" -> Ok(m, PUndefined)
      [] Classify(m.heap, v) = "promise" -> ConvertPromise(m, v.id)
      [] Classify(m.heap, v) = "function" -> ConvertFunction(m, v.id)
      [] Classify(m.heap, v) = "string" -> Ok(m, PString(v.s))
      [] Classify(m.heap, v) = "int" -> Ok(m, PInt(v.i))
      [] Classify(m.heap, v) = "float" -> Ok(m, PFloat(v.f))
      [] Classify(m.heap, v) = "bool" -> Ok(m, PBoolean(v.b))
      [] Classify(m.heap, v) = "exception" -> ConvertException(m, v.id)
      [] Classify(m.heap, v) = "array" -> ConvertArray(m, v.id)
      [] Classify(m.heap, v) = "object" -> ConvertObject(m, v.id)
      [] OTHER -> ConvertUnknown(m, v)

RECURSIVE ConvertValueDeep(_, _)
ConvertValueDeep(m, val) ==
    IF IsObject(m.heap, val) /\ GetProp(m.heap, val, "value") # VUndefined
    THEN ConvertValueDeep(m, GetProp(m.heap, val, "value"))
    ELSE Convert(m, val)

\* JavaPromise::convert_value: unwrap one level of {value: ..}
ConvertValue(m, val) ==
    IF IsObject(m.heap, val) /\ GetProp(m.heap, val, "value") # VUndefined
    THEN Convert(m, GetProp(m.heap, val, "value"))
    ELSE Convert(m, val)

PendingProxyFails(m) == Err(m, "Pending")
\* PromiseState::Pending => JSJavaProxy::Null
PendingProxy(m) == Ok(m, PNull)

\* JavaPromise::call, the value it is about to send (lines 162-190).
\* Promise::finish on a rejected promise throws, which the code reports
\* with the Debug text of the error.
SettledProxy(m, arg) ==
    IF IsKind(m.heap, arg, "promise")
    THEN CASE m.heap[arg.id].state = "resolved" -> ConvertValue(m, m.heap[arg.id].value)
           [] m.heap[arg.id].state = "rejected" -> Ok(m, PException("Exception", ""))
           [] m.heap[arg.id].state = "pending" -> PendingProxy(m)
    ELSE ConvertValue(m, arg)

\* JavaPromise::call: a failed conversion returns through `?` before the
\* host is called; otherwise complete_completable_future is called once.
JavaPromiseCall(m, cb, arg) ==
    LET r == SettledProxy(m, arg) IN
    [m |-> r.m,
     call |-> [fut |-> cb.fut, reject |-> cb.reject, arg |-> arg,
               seen |-> IF IsKind(m.heap, arg, "promise")
                        THEN m.heap[arg.id].state ELSE "value",
               convOk |-> r.ok, completed |-> r.ok,
               payload |-> IF r.ok THEN Some(r.proxy) ELSE None]]

(***************************************************************************)
(* What scripts work with: a few primitive values (a symbol has no proxy   *)
(* variant) and the objects a script may create.                           *)
(***************************************************************************)
Refs(h) == {VRef(id) : id \in DOMAIN h}
PrimValues == {VInt(42), VString("boom"), VSymbol}
\* The numbers with no fractional part among the floats of the model:
\* 2147483648 is 2^31, one more than the largest i32
IntegralFloats == {"2147483648.0"}
Values(h) == PrimValues \cup Refs(h)

ArrayLiteral == ArrayObj(<<VInt(1), VInt(2), VInt(3)>>)
ObjectLiteral == ObjectObj([a |-> VInt(1), b |-> VInt(2)])
ErrorLiteral == ErrorObj(Some("boom"), Some("at <eval>"))
\* {value: v}, the boxed result convention of the settlement callbacks
Boxed(h) == {ObjectObj([value |-> v]) : v \in {VInt(42)} \cup Refs(h)}
\* The objects the scripts of the conversion runs create
Literals(h) == {ArrayLiteral, ObjectLiteral, FunctionObj("a"), PromiseObj, ErrorLiteral}
\* The objects the scripts of the bridge runs create
BridgeLiterals(h) == {PromiseObj, ErrorLiteral} \cup Boxed(h)
\* The values the conversion runs return to the host
ReturnValues(h) ==
    PrimValues \cup Refs(h) \cup {VNull, VUndefined, VFloat("3.14"), VBool(TRUE)}
\* The values the classification runs return: every kind of engine object,
\* null, undefined and numbers
ClassifyValues(h) ==
    Refs(h) \cup {VNull, VUndefined, VInt(42), VFloat("3.14"), VFloat("2147483648.0")}

PromiseIds(h) == {id \in DOMAIN h : h[id].kind = "promise"}

\* The model's bounds on allocation and on registered callbacks
WithinBounds(m, cs) ==
    /\ Len(m.boxes) <= MaxBoxes
    /\ Len(m.jobs) + Len(cs) <= MaxReactions
    /\ \A id \in PromiseIds(m.heap) : Len(m.heap[id].reactions) <= MaxReactions

Install(m) ==
    /\ heap' = m.heap
    /\ boxes' = m.boxes
    /\ jobs' = m.jobs
    /\ nfut' = m.nfut
    /\ creates' = m.creates

\* The wasm_export wrapper of a function returning rquickjs::Result<JSJavaProxy>:
\* the engine value is converted (FromJs), an error becomes an Exception proxy
Returned(v, r) == [val |-> v, ok |-> r.ok, proxy |-> r.proxy]

(***************************************************************************)
(* Boundary calls.                                                         *)
(***************************************************************************)
\* eval_script of a script that creates an object and keeps it in a global
EvalCreate(obj) ==
    /\ Len(heap) < MaxHeap
    /\ obj.kind = "promise" => Cardinality(PromiseIds(heap)) < MaxPromises
    /\ heap' = Append(heap, obj)
    /\ UNCHANGED <<boxes, jobs, nfut, creates, calls, made, convLog>>
    /\ UNCHANGED ctxVars
    /\ UNCHANGED hostVars

\* eval_script / get_global / invoke returning the engine value v
EvalReturn(v) ==
    LET r == Convert(Machine, v) IN
    /\ WithinBounds(r.m, calls)
    /\ Install(r.m)
    /\ convLog' = convLog \cup {Returned(v, r)}
    /\ UNCHANGED <<calls, made>>
    /\ UNCHANGED ctxVars
    /\ UNCHANGED hostVars

\* The engine settles a promise: every registered reaction becomes a job
SettlePromise(m, id, how, v) ==
    LET rs == m.heap[id].reactions
        js == [i \in DOMAIN rs |->
                 [cb |-> IF how = "resolved" THEN rs[i].onF ELSE rs[i].onR, arg |-> v]]
    IN [m EXCEPT !.heap[id].state = how, !.heap[id].value = v,
                 !.heap[id].reactions = <<>>, !.jobs = @ \o js]

\* eval_script of a script that calls the resolve or reject function of a
\* pending promise (a promise given to resolve would be adopted, not stored)
EvalSettle(id, how, v) ==
    /\ heap[id].state = "pending"
    /\ how = "resolved" => ~IsKind(heap, v, "promise")
    /\ WithinBounds(SettlePromise(Machine, id, how, v), calls)
    /\ Install(SettlePromise(Machine, id, how, v))
    /\ UNCHANGED <<calls, made, convLog>>
    /\ UNCHANGED ctxVars
    /\ UNCHANGED hostVars

\* promise_create(context, cf_ptr): the host has allocated the future cf_ptr
PromiseCreate ==
    LET cf == nfut + 1
        id == Len(heap) + 1
        ptr == Len(boxes) + 1
    IN /\ Len(heap) < MaxHeap
       /\ Cardinality(PromiseIds(heap)) < MaxPromises
       /\ Len(boxes) < MaxBoxes
       /\ nfut' = cf
       /\ heap' = Append(heap, [PromiseObj EXCEPT !.cf = Some(cf)])
       /\ boxes' = Append(boxes, PromiseContainer(id, TRUE))
       /\ made' = made \cup {[fut |-> cf, ptr |-> ptr]}
       /\ UNCHANGED <<jobs, creates, calls, convLog>>
       /\ UNCHANGED ctxVars
       /\ UNCHANGED hostVars

\* The FutureHandle proxies the host holds
HostFutures ==
    {e.proxy : e \in {x \in convLog : x.proxy.t = "CompletableFuture"}}
    \cup {PCompletableFuture(x.fut, x.ptr) : x \in made}
    \cup {calls[i].payload[1] : i \in {j \in DOMAIN calls :
              calls[j].completed /\ calls[j].payload[1].t = "CompletableFuture"}}

\* IntoJs for JSJavaProxy::CompletableFuture: restore the promise behind the
\* pointer and store the future id on it
IntoJsFuture(m, p) ==
    [m EXCEPT !.heap[m.boxes[p.ptr].ref].cf = Some(p.fut)]

\* A boundary call that takes a FutureHandle the host holds as its value
\* or argument: the proxy is materialized (IntoJs)
Materialize(p) ==
    /\ Install(IntoJsFuture(Machine, p))
    /\ UNCHANGED <<calls, made, convLog>>
    /\ UNCHANGED ctxVars
    /\ UNCHANGED hostVars

\* poll: execute_pending_job runs the first job of the queue
Poll ==
    /\ jobs # <<>>
    /\ LET job == Head(jobs)
           m == [Machine EXCEPT !.jobs = Tail(jobs)]
       IN IF job.cb = None
          THEN Install(m) /\ UNCHANGED calls
          ELSE LET r == JavaPromiseCall(m, job.cb[1], job.arg) IN
               /\ WithinBounds(r.m, Append(calls, r.call))
               /\ Install(r.m)
               /\ calls' = Append(calls, r.call)
    /\ UNCHANGED <<made, convLog>>
    /\ UNCHANGED ctxVars
    /\ UNCHANGED hostVars

(***************************************************************************)
(* Driving the engine: eval_script_async and poll with the value it        *)
(* returns.                                                                *)
(***************************************************************************)
\* The most promises the job queue runs use
QueuePromises == MaxPromises + 1

\* The reaction job ran a bridge callback: r is what JavaPromise::call did
Delivered(r, cs) == [m |-> r.m, calls |-> Append(cs, r.call), ran |-> TRUE]

\* One reaction job runs: a job without callback passes the settlement on,
\* any other calls JavaPromise::call
RunJob(job, m, cs) ==
    IF job.cb = None THEN [m |-> m, calls |-> cs, ran |-> TRUE]
    ELSE Delivered(JavaPromiseCall(m, job.cb[1], job.arg), cs)

RECURSIVE ExecuteAllJobs(_, _)
ExecuteAllJobs(m, cs) ==
    IF m.jobs = <<>> THEN [m |-> m, calls |-> cs, ran |-> FALSE]
    ELSE [ExecuteAllJobs(RunJob(Head(m.jobs), [m EXCEPT !.jobs = Tail(@)], cs).m,
                         RunJob(Head(m.jobs), [m EXCEPT !.jobs = Tail(@)], cs).calls)
             EXCEPT !.ran = TRUE]

ExecuteLastJob(m, cs) ==
    IF m.jobs = <<>> THEN [m |-> m, calls |-> cs, ran |-> FALSE]
    ELSE RunJob(m.jobs[Len(m.jobs)], [m EXCEPT !.jobs = SubSeq(@, 1, Len(@) - 1)], cs)

\* ctx.execute_pending_job(): the first job of the queue runs, if there is
\* one; the result tells whether a job ran
ExecutePendingJob(m, cs) ==
    IF m.jobs = <<>> THEN [m |-> m, calls |-> cs, ran |-> FALSE]
    ELSE RunJob(Head(m.jobs), [m EXCEPT !.jobs = Tail(@)], cs)

\* The host's answer to the i-th callback's complete_completable_future
\* call: an error signal if that future was completed before (the host is
\* not part of the sources; this is what its contract says)
HostSignal(cs, i) ==
    IF \E j \in 1..(i - 1) : cs[j].completed /\ cs[j].fut = cs[i].fut
    THEN "error" ELSE "ok"

\* JavaPromise::call after the host answered: let _result = ..;
\* Ok(Value::new_bool(.., true)), whatever the answer is
CallbackReturn(signal) == "true"

\* poll ends with the engine as r.m and returns r.ran
Polled(r) ==
    /\ WithinBounds(r.m, r.calls)
    /\ Install(r.m)
    /\ calls' = r.calls
    /\ last' = [op |-> "poll", result |-> Some(r.ran)]
    /\ UNCHANGED <<made, convLog, globals, closed, restores, errors, aborted>>
    /\ UNCHANGED ctxVars

\* poll, with the value it returns to the host
PollReturn == Polled(ExecutePendingJob(Machine, calls))

\* eval_script_async ends with the promise id bridged as r
AsyncReturned(id, r) ==
    /\ WithinBounds(r.m, calls)
    /\ Install(r.m)
    /\ convLog' = convLog \cup {Returned(VRef(id), r)}
    /\ last' = [op |-> "eval_script_async", result |-> Some(r.proxy)]
    /\ UNCHANGED <<calls, made, globals, closed, restores, errors, aborted>>
    /\ UNCHANGED ctxVars

\* eval_script_async of a script that awaits: eval_promise makes the promise
\* of the script's completion, which is converted before any job has run
EvalScriptAsync ==
    /\ Cardinality(PromiseIds(heap)) < QueuePromises
    /\ AsyncReturned(Len(heap) + 1,
                     ConvertPromise([Machine EXCEPT !.heap = Append(@, PromiseObj)],
                                    Len(heap) + 1))

(***************************************************************************)
(* Settlement values: what the scripts hand to resolve and reject.         *)
(***************************************************************************)
\* The most heap objects the settlement runs use
SettleHeap == MaxPromises + MaxNest

RECURSIVE Nested(_, _)
\* The value 42 boxed n times: 42, {value: 42}, {value: {value: 42}}, ..
Nested(h, n) ==
    IF n = 0 THEN [h |-> h, val |-> VInt(42)]
    ELSE LET r == Nested(h, n - 1) IN
         [h |-> Append(r.h, ObjectObj([value |-> r.val])), val |-> VRef(Len(r.h) + 1)]

\* The object obj created by the settling script itself
Created(h, obj) == [h |-> Append(h, obj), val |-> VRef(Len(h) + 1)]

\* The expressions the scripts settle with: 42 boxed up to MaxNest times,
\* {a: 1, b: 2}, {value: undefined}, new Promise(() => {}) and
\* Promise.resolve(42)
SettleShapes ==
    {[kind |-> "nested", n |-> n] : n \in 0..MaxNest}
    \cup {[kind |-> k, n |-> 1] : k \in {"plain", "unset", "pending", "resolved"}}

FreshValue(h, s) ==
    CASE s.kind = "nested" -> Nested(h, s.n)
      [] s.kind = "plain" -> Created(h, ObjectLiteral)
      [] s.kind = "unset" -> Created(h, ObjectObj([value |-> VUndefined]))
      [] s.kind = "pending" -> Created(h, PromiseObj)
      [] s.kind = "resolved" ->
            Created(h, [PromiseObj EXCEPT !.state = "resolved", !.value = VInt(42)])

\* The promise id settled with the fresh value f
SettleFresh(id, how, f) ==
    /\ Len(f.h) <= SettleHeap
    /\ WithinBounds(SettlePromise([Machine EXCEPT !.heap = f.h], id, how, f.val), calls)
    /\ Install(SettlePromise([Machine EXCEPT !.heap = f.h], id, how, f.val))

\* eval_script of a script that calls the resolve or reject function of a
\* pending promise with a value it creates (a promise given to resolve
\* would be adopted, not stored)
EvalSettleWith(id, how, s) ==
    /\ heap[id].state = "pending"
    /\ how = "resolved" => s.kind \notin {"pending", "resolved"}
    /\ SettleFresh(id, how, FreshValue(heap, s))
    /\ UNCHANGED <<calls, made, convLog>>
    /\ UNCHANGED ctxVars
    /\ UNCHANGED hostVars

(***************************************************************************)
(* Materialization (IntoJs for JSJavaProxy) and the globals of the engine. *)
(***************************************************************************)
\* The stack text the engine gives an Error object made by native code
NativeStack == "    at <anonymous>"

\* Persistent::clone().restore(ctx): the engine value behind a handle
Restore(m, ptr) == VRef(m.boxes[ptr].ref)

RECURSIVE IntoJs(_, _)
RECURSIVE IntoJsElems(_, _, _, _)
RECURSIVE IntoJsProps(_, _, _, _)

\* for (i, value) in values: array.set(i, value)
IntoJsElems(m, id, elems, i) ==
    IF i > Len(elems) THEN m
    ELSE LET r == IntoJs(m, elems[i]) IN
         IntoJsElems([r.m EXCEPT !.heap[id].elems = Append(@, r.val)], id, elems, i + 1)

\* for (key, value) in values: obj.set(key, value)
IntoJsProps(m, id, props, keys) ==
    IF keys = {} THEN m
    ELSE LET key == CHOOSE k \in keys : TRUE
             r == IntoJs(m, props[key])
             old == r.m.heap[id].props
             new == [k \in DOMAIN old \cup {key} |-> IF k = key THEN r.val ELSE old[k]]
         IN IntoJsProps([r.m EXCEPT !.heap[id].props = new], id, props, keys \ {key})

\* IntoJs for JSJavaProxy: the engine value a proxy stands for
IntoJs(m, p) ==
    LET id == Len(m.heap) + 1
        Alloc(obj) == [m EXCEPT !.heap = Append(@, obj)]
    IN CASE p.t = "Null" -> [m |-> m, val |-> VNull]
         [] p.t = "Undefined" -> [m |-> m, val |-> VUndefined]
         [] p.t = "Float" -> [m |-> m, val |-> VFloat(p.f)]
         [] p.t = "Int" -> [m |-> m, val |-> VInt(p.i)]
         [] p.t = "Boolean" -> [m |-> m, val |-> VBool(p.b)]
         [] p.t = "String" -> [m |-> m, val |-> VString(p.s)]
         [] p.t = "Array" ->
                [m |-> IntoJsElems(Alloc(ArrayObj(<<>>)), id, p.elems, 1), val |-> VRef(id)]
         [] p.t = "Object" ->
                [m |-> IntoJsProps(Alloc(ObjectObj(<<>>)), id, p.props, DOMAIN p.props),
                 val |-> VRef(id)]
         [] p.t = "Function" -> [m |-> m, val |-> Restore(m, p.ptr)]
         [] p.t = "JavaFunction" ->
                [m |-> Alloc(HostFunctionObj(p.ctx, p.fn)), val |-> VRef(id)]
         [] p.t = "Exception" ->
                [m |-> Alloc(ErrorObj(Some(p.msg), Some(NativeStack))), val |-> VRef(id)]
         [] p.t = "NativeArray" -> [m |-> m, val |-> Restore(m, p.ptr)]
         [] p.t = "NativeObject" -> [m |-> m, val |-> Restore(m, p.ptr)]
         [] p.t = "CompletableFuture" ->
                [m |-> IntoJsFuture(m, p), val |-> Restore(m, p.ptr)]

\* The handle a proxy carries, for the variants a close export releases
HandleOf(p) ==
    IF p.t \in {"Function", "NativeArray", "NativeObject"} THEN Some(p.ptr) ELSE None

IsClosed(ptr) == \E c \in closed : c.ptr = ptr

\* What a read through a handle can do.  A live handle is restored.  The
\* memory of a released one has been freed: the read may still see the old
\* contents, may find them unusable (the restore fails), or may fault.
RestoreOutcomes(ptr) ==
    IF IsClosed(ptr) THEN {"stale", "error", "fault"} ELSE {"ok"}

RestoreConsumes(cl, ptr) == cl \cup {[ptr |-> ptr, by |-> "restore"]}
\* A restore works on a clone of the Persistent behind the pointer: the
\* handle itself stays as it was
AfterRestore(cl, ptr) == cl

\* One more read of the handle ptr
CanRestore(ptr) == restores.ptr = ptr => restores.n < MaxUses
Restored(ptr) == [ptr |-> ptr, n |-> IF restores.ptr = ptr THEN restores.n + 1 ELSE 1]

\* The handle proxies the host holds
HostHandles ==
    {e.proxy : e \in {x \in convLog : x.proxy.t \in {"Function", "NativeArray", "NativeObject"}}}

\* The proxies the host builds itself, one of each copied variant
RoundProxies ==
    {PNull, PUndefined, PInt(42), PFloat("3.14"), PBoolean(TRUE), PString("boom"),
     PArray(<<PInt(1), PArray(<<PInt(2)>>)>>),
     PObject([a |-> PInt(1), b |-> PObject([c |-> PInt(2)])])}

\* set_global(name, value): the value is materialized and stored; the call
\* returns Null, or the Exception proxy of a failed restore (FromError)
SetGlobal(p) ==
    LET h == HandleOf(p)
        r == IntoJs(Machine, p)
    IN /\ ~aborted
       /\ h # None => CanRestore(h[1])
       /\ \E how \in (IF h = None THEN {"ok"} ELSE RestoreOutcomes(h[1])) :
            /\ how \in {"ok", "stale"} => Len(r.m.heap) <= MaxHeap
            /\ IF how \in {"ok", "stale"}
               THEN Install(r.m) /\ globals' = Some([val |-> r.val, from |-> p])
               ELSE UNCHANGED <<heap, boxes, jobs, nfut, creates, globals>>
            /\ aborted' = (how = "fault")
            /\ closed' = IF h = None THEN closed ELSE AfterRestore(closed, h[1])
            /\ restores' = IF h = None THEN restores ELSE Restored(h[1])
            /\ last' = [op |-> "set_global", handle |-> h,
                        live |-> (how = "ok"), outcome |-> how,
                        ref |-> IF how \in {"ok", "stale"} THEN Some(r.val) ELSE None,
                        result |-> IF how \in {"ok", "stale"} THEN Some(PNull) ELSE None]
       /\ UNCHANGED <<calls, made, convLog, errors>>
       /\ UNCHANGED ctxVars

\* get_global(name): the stored value is converted for the host
GetGlobal ==
    LET v == IF globals = None THEN VUndefined ELSE globals[1].val
        r == Convert(Machine, v)
    IN /\ ~aborted
       /\ WithinBounds(r.m, calls)
       /\ Install(r.m)
       /\ convLog' = convLog \cup {Returned(v, r)}
       /\ last' = [op |-> "get_global",
                   sent |-> IF globals = None THEN None ELSE Some(globals[1].from),
                   val |-> v, ok |-> r.ok, proxy |-> r.proxy,
                   created |-> r.m.nfut - nfut]
       /\ UNCHANGED <<calls, made, globals, closed, restores, errors, aborted>>
       /\ UNCHANGED ctxVars

(***************************************************************************)
(* The handle exports.  The host passes a handle it holds; the wrapper     *)
(* turns the number back into a reference (read exports) or into the owning*)
(* box (close exports).                                                    *)
(***************************************************************************)
CloseExports == {"array_close", "object_close", "close_function"}
RestoreExports == {"array_size", "array_get", "call_function", "set_global"}

\* The handles of one kind the host holds
HandlesOf(ty) == {p.ptr : p \in {q \in HostHandles : boxes[q.ptr].ty = ty}}

\* What calling the script function a of the scripts returns:
\* function a() { return 1; }
Returns(fn) == VInt(1)

\* The record of a call that read through a handle
Used(op, ptr, how, ref, result) ==
    [op |-> op, handle |-> Some(ptr), live |-> (how = "ok"), outcome |-> how,
     ref |-> ref, result |-> result]

\* array_size: a failed restore is logged and reported as -1
ArraySize(ptr) ==
    /\ ~aborted
    /\ CanRestore(ptr)
    /\ \E how \in RestoreOutcomes(ptr) :
         /\ aborted' = (how = "fault")
         /\ last' = CASE how \in {"ok", "stale"} ->
                            Used("array_size", ptr, how, Some(Restore(Machine, ptr)),
                                 Some(Len(heap[Restore(Machine, ptr).id].elems)))
                       [] how = "error" -> Used("array_size", ptr, how, None, Some(-1))
                       [] how = "fault" -> Used("array_size", ptr, how, None, None)
    /\ closed' = AfterRestore(closed, ptr)
    /\ restores' = Restored(ptr)
    /\ UNCHANGED <<globals, errors>>
    /\ UNCHANGED bridgeVars
    /\ UNCHANGED ctxVars

\* array_get: restore(..).unwrap(), then the element is converted; an index
\* past the end reads undefined (the elements of the scripts are numbers,
\* which are copied: the host gets no handle to keep)
ArrayGet(ptr, i) ==
    LET arr == heap[Restore(Machine, ptr).id].elems
        v == IF i \in DOMAIN arr THEN arr[i] ELSE VUndefined
        r == Convert(Machine, v)
    IN /\ ~aborted
       /\ CanRestore(ptr)
       /\ \E how \in RestoreOutcomes(ptr) :
            /\ aborted' = (how \in {"error", "fault"})
            /\ IF how \in {"ok", "stale"}
               THEN /\ WithinBounds(r.m, calls)
                    /\ Install(r.m)
                    /\ last' = Used("array_get", ptr, how, Some(Restore(Machine, ptr)),
                                    Some(r.proxy))
               ELSE /\ UNCHANGED <<heap, boxes, jobs, nfut, creates>>
                    /\ last' = Used("array_get", ptr, how, None, None)
       /\ closed' = AfterRestore(closed, ptr)
       /\ restores' = Restored(ptr)
       /\ UNCHANGED <<calls, made, convLog, globals, errors>>
       /\ UNCHANGED ctxVars

\* call_function: a failed restore returns through `?` and is reported as
\* an Exception proxy; otherwise the result of the call is converted
CallFunction(ptr) ==
    LET v == Returns(Restore(Machine, ptr))
        r == Convert(Machine, v)
    IN /\ ~aborted
       /\ CanRestore(ptr)
       /\ \E how \in RestoreOutcomes(ptr) :
            /\ aborted' = (how = "fault")
            /\ IF how \in {"ok", "stale"}
               THEN /\ WithinBounds(r.m, calls)
                    /\ Install(r.m)
                    /\ last' = Used("call_function", ptr, how,
                                    Some(Restore(Machine, ptr)), Some(r.proxy))
               ELSE /\ UNCHANGED <<heap, boxes, jobs, nfut, creates>>
                    /\ last' = Used("call_function", ptr, how, None,
                                    IF how = "error"
                                    THEN Some(PException("UnrelatedRuntime", ""))
                                    ELSE None)
       /\ closed' = AfterRestore(closed, ptr)
       /\ restores' = Restored(ptr)
       /\ UNCHANGED <<calls, made, convLog, globals, errors>>
       /\ UNCHANGED ctxVars

\* array_close, object_close, close_function: Box::from_raw, then drop
Close(fn, ptr) ==
    /\ ~aborted
    /\ ~IsClosed(ptr)
    /\ closed' = closed \cup {[ptr |-> ptr, by |-> fn]}
    /\ last' = [op |-> fn, handle |-> Some(ptr)]
    /\ UNCHANGED <<globals, restores, errors, aborted>>
    /\ UNCHANGED bridgeVars
    /\ UNCHANGED ctxVars

(***************************************************************************)
(* Reading a property through an object handle (object_get_value).         *)
(***************************************************************************)
\* The objects of the scripts that hold a promise: {p: promise, n: 1}
Holders(h) == {ObjectObj([p |-> VRef(id), n |-> VInt(1)]) : id \in PromiseIds(h)}
\* The keys the host asks for; zz is a key no object has
HostKeys == {"p", "n", "zz"}

PropertyAsObject(m, v) == IF v.t = "ref" THEN ConvertObject(m, v.id) ELSE Convert(m, v)
\* object.get(key)?: the property is converted by FromJs for JSJavaProxy
PropertyProxy(m, v) == Convert(m, v)

\* get_value on the restored object obj: a key the object does not contain
\* gives Null, any other the conversion of the property
GetValue(m, obj, key) ==
    IF key \in DOMAIN m.heap[obj.id].props
    THEN PropertyProxy(m, m.heap[obj.id].props[key])
    ELSE Ok(m, PNull)

\* The record of an object_get_value call that restored its handle
GotValue(ptr, how, obj, key, r) ==
    [op |-> "object_get_value", handle |-> Some(ptr), live |-> (how = "ok"),
     outcome |-> how, ref |-> Some(obj), key |-> key,
     val |-> GetProp(heap, obj, key), result |-> Some(r.proxy)]

\* object_get_value with a String key: the handle is restored and the
\* property read; a failed restore is reported through handle_error
ObjectGetValue(ptr, key) ==
    /\ ~aborted
    /\ CanRestore(ptr)
    /\ \E how \in RestoreOutcomes(ptr) :
         /\ aborted' = (how = "fault")
         /\ IF how \in {"ok", "stale"}
            THEN /\ WithinBounds(GetValue(Machine, Restore(Machine, ptr), key).m, calls)
                 /\ Install(GetValue(Machine, Restore(Machine, ptr), key).m)
                 /\ last' = GotValue(ptr, how, Restore(Machine, ptr), key,
                                     GetValue(Machine, Restore(Machine, ptr), key))
            ELSE /\ UNCHANGED <<heap, boxes, jobs, nfut, creates>>
                 /\ last' = Used("object_get_value", ptr, how, None, None)
    /\ closed' = AfterRestore(closed, ptr)
    /\ restores' = Restored(ptr)
    /\ UNCHANGED <<calls, made, convLog, globals, errors>>
    /\ UNCHANGED ctxVars

(***************************************************************************)
(* The wire format: rmp_serde over the derived Serialize and Deserialize   *)
(* of JSJavaProxy.  An encoding is a sequence of MessagePack items, each a  *)
(* format with its content.                                                *)
(***************************************************************************)
Tok(kind, val) == <<kind, val>>
Format(item) == item[1]
Content(item) == item[2]

\* #[serde(rename_all = "camelCase")]
VariantName(t) ==
    CASE t = "Null" -> "null"
      [] t = "Undefined" -> "undefined"
      [] t = "String" -> "string"
      [] t = "Int" -> "int"
      [] t = "Float" -> "float"
      [] t = "Boolean" -> "boolean"
      [] t = "Array" -> "array"
      [] t = "NativeArray" -> "nativeArray"
      [] t = "Object" -> "object"
      [] t = "NativeObject" -> "nativeObject"
      [] t = "Function" -> "function"
      [] t = "JavaFunction" -> "javaFunction"
      [] t = "Exception" -> "exception"
      [] t = "CompletableFuture" -> "completableFuture"

\* The values each integer format holds
IntFormats == {"pfix", "u8", "u16", "u32", "nfix", "i8", "i16", "i32"}
Holds(k, v) ==
    CASE k = "pfix" -> v \in 0..127
      [] k = "u8" -> v \in 0..255
      [] k = "u16" -> v \in 0..65535
      [] k = "u32" -> v >= 0
      [] k = "nfix" -> v \in -32..-1
      [] k = "i8" -> v \in -128..127
      [] k = "i16" -> v \in -32768..32767
      [] k = "i32" -> TRUE

WriteIntAsByte(i) == Tok("u8", i % 256)
\* An integer is written in the smallest format that holds it
WriteInt(i) ==
    Tok(CASE i \in 0..127 -> "pfix"
          [] i \in 128..255 -> "u8"
          [] i \in 256..65535 -> "u16"
          [] i > 65535 -> "u32"
          [] i \in -32..-1 -> "nfix"
          [] i \in -128..-33 -> "i8"
          [] i \in -32768..-129 -> "i16"
          [] i < -32768 -> "i32", i)

\* A variant with one field is a map of one entry, variant name to field;
\* one with two fields has the array of its fields as the entry's value
Field1(name, a) == <<Tok("map", 1), Tok("str", name)>> \o a
Field2(name, a, b) == <<Tok("map", 1), Tok("str", name), Tok("array", 2), a, b>>

\* The order in which a HashMap gives its keys is arbitrary: flip tells
\* which of two orders it is
Pick(keys, flip) ==
    IF flip /\ Cardinality(keys) > 1
    THEN CHOOSE k \in keys : k # (CHOOSE j \in keys : TRUE)
    ELSE CHOOSE j \in keys : TRUE

RECURSIVE Encode(_, _)
RECURSIVE EncodeElems(_, _, _)
RECURSIVE EncodeProps(_, _, _)
EncodeElems(elems, i, flip) ==
    IF i > Len(elems) THEN <<>>
    ELSE Encode(elems[i], flip) \o EncodeElems(elems, i + 1, flip)

EncodeProps(props, keys, flip) ==
    IF keys = {} THEN <<>>
    ELSE <<Tok("str", Pick(keys, flip))>> \o Encode(props[Pick(keys, flip)], flip)
         \o EncodeProps(props, keys \ {Pick(keys, flip)}, flip)

\* rmp_serde::to_vec(&proxy)
Encode(p, flip) ==
    CASE p.t \in {"Null", "Undefined"} -> <<Tok("str", VariantName(p.t))>>
      [] p.t = "String" -> Field1(VariantName(p.t), <<Tok("str", p.s)>>)
      [] p.t = "Int" -> Field1(VariantName(p.t), <<WriteInt(p.i)>>)
      [] p.t = "Float" -> Field1(VariantName(p.t), <<Tok("f64", p.f)>>)
      [] p.t = "Boolean" -> Field1(VariantName(p.t), <<Tok("bool", p.b)>>)
      [] p.t = "Array" ->
            Field1(VariantName(p.t),
                   <<Tok("array", Len(p.elems))>> \o EncodeElems(p.elems, 1, flip))
      [] p.t \in {"NativeArray", "NativeObject"} ->
            Field1(VariantName(p.t), <<WriteInt(p.ptr)>>)
      [] p.t = "Object" ->
            Field1(VariantName(p.t),
                   <<Tok("map", Cardinality(DOMAIN p.props))>>
                   \o EncodeProps(p.props, DOMAIN p.props, flip))
      [] p.t = "Function" -> Field2(VariantName(p.t), Tok("str", p.name), WriteInt(p.ptr))
      [] p.t = "JavaFunction" -> Field2(VariantName(p.t), WriteInt(p.ctx), WriteInt(p.fn))
      [] p.t = "Exception" ->
            Field2(VariantName(p.t), Tok("str", p.msg), Tok("str", p.stacktrace))
      [] p.t = "CompletableFuture" ->
            Field2(VariantName(p.t), WriteInt(p.fut), WriteInt(p.ptr))

\* The result of reading a part of an encoding: the value read and the
\* items after it
Fail == [ok |-> FALSE, val |-> PNull, rest |-> <<>>]
Got(v, rest) == [ok |-> TRUE, val |-> v, rest |-> rest]

\* One field of the type ty: String, i32, u64, f64 or bool
Read(ty, ts) ==
    IF ts = <<>> THEN Fail
    ELSE CASE ty = "String" ->
                 IF Format(Head(ts)) = "str" THEN Got(Content(Head(ts)), Tail(ts)) ELSE Fail
           [] ty = "i32" ->
                 IF Format(Head(ts)) \in IntFormats /\ Holds(Format(Head(ts)), Content(Head(ts)))
                 THEN Got(Content(Head(ts)), Tail(ts)) ELSE Fail
           [] ty = "u64" ->
                 IF Format(Head(ts)) \in IntFormats /\ Holds(Format(Head(ts)), Content(Head(ts)))
                    /\ Content(Head(ts)) >= 0
                 THEN Got(Content(Head(ts)), Tail(ts)) ELSE Fail
           [] ty = "f64" ->
                 IF Format(Head(ts)) = "f64" THEN Got(Content(Head(ts)), Tail(ts)) ELSE Fail
           [] ty = "bool" ->
                 IF Format(Head(ts)) = "bool" THEN Got(Content(Head(ts)), Tail(ts)) ELSE Fail

\* The variant named name with the fields a (and b)
Build1(name, a) ==
    CASE name = "string" -> PString(a)
      [] name = "int" -> PInt(a)
      [] name = "float" -> PFloat(a)
      [] name = "boolean" -> PBoolean(a)
      [] name = "nativeArray" -> PNativeArray(a)
      [] name = "nativeObject" -> PNativeObject(a)
Build2(name, a, b) ==
    CASE name = "function" -> PFunction(a, b)
      [] name = "javaFunction" -> PJavaFunction(a, b)
      [] name = "exception" -> PException(a, b)
      [] name = "completableFuture" -> PCompletableFuture(a, b)

\* The types of the fields of each variant
FieldTypes(name) ==
    CASE name = "string" -> <<"String">>
      [] name = "int" -> <<"i32">>
      [] name = "float" -> <<"f64">>
      [] name = "boolean" -> <<"bool">>
      [] name = "nativeArray" -> <<"u64">>
      [] name = "nativeObject" -> <<"u64">>
      [] name = "function" -> <<"String", "u64">>
      [] name = "javaFunction" -> <<"i32", "i32">>
      [] name = "exception" -> <<"String", "String">>
      [] name = "completableFuture" -> <<"i32", "u64">>
      [] OTHER -> <<>>

One(name, r) == IF r.ok THEN Got(Build1(name, r.val), r.rest) ELSE Fail
Both(name, r1, r2) == IF r2.ok THEN Got(Build2(name, r1.val, r2.val), r2.rest) ELSE Fail
Second(name, r1) ==
    IF r1.ok THEN Both(name, r1, Read(FieldTypes(name)[2], r1.rest)) ELSE Fail

RECURSIVE DecodeProxy(_)
RECURSIVE DecodeElems(_, _, _)
RECURSIVE DecodeProps(_, _, _)
NextElem(r, n, acc) ==
    IF r.ok THEN DecodeElems(r.rest, n - 1, Append(acc, r.val)) ELSE Fail
DecodeElems(ts, n, acc) ==
    IF n = 0 THEN Got(PArray(acc), ts) ELSE NextElem(DecodeProxy(ts), n, acc)

\* map.insert(key, value)
NextProp(key, r, n, acc) ==
    IF r.ok THEN DecodeProps(r.rest, n - 1, (key :> r.val) @@ acc) ELSE Fail
DecodeProps(ts, n, acc) ==
    IF n = 0 THEN Got(PObject(acc), ts)
    ELSE IF ts # <<>> /\ Format(Head(ts)) = "str"
    THEN NextProp(Content(Head(ts)), DecodeProxy(Tail(ts)), n, acc)
    ELSE Fail

\* The value of the variant named name
DecodeVariant(name, ts) ==
    CASE name = "array" ->
            IF ts # <<>> /\ Format(Head(ts)) = "array"
            THEN DecodeElems(Tail(ts), Content(Head(ts)), <<>>) ELSE Fail
      [] name = "object" ->
            IF ts # <<>> /\ Format(Head(ts)) = "map"
            THEN DecodeProps(Tail(ts), Content(Head(ts)), <<>>) ELSE Fail
      [] Len(FieldTypes(name)) = 1 -> One(name, Read(FieldTypes(name)[1], ts))
      [] Len(FieldTypes(name)) = 2 ->
            IF ts # <<>> /\ Head(ts) = Tok("array", 2)
            THEN Second(name, Read(FieldTypes(name)[1], Tail(ts))) ELSE Fail
      [] OTHER -> Fail

\* Deserialize for JSJavaProxy: a variant without fields is its name, any
\* other a map of one entry
DecodeProxy(ts) ==
    IF ts = <<>> THEN Fail
    ELSE IF Format(Head(ts)) = "str"
    THEN CASE Content(Head(ts)) = "null" -> Got(PNull, Tail(ts))
           [] Content(Head(ts)) = "undefined" -> Got(PUndefined, Tail(ts))
           [] OTHER -> Fail
    ELSE IF Head(ts) = Tok("map", 1) /\ Len(ts) >= 2 /\ Format(ts[2]) = "str"
    THEN DecodeVariant(Content(ts[2]), SubSeq(ts, 3, Len(ts)))
    ELSE Fail

\* The proxy r read from a whole encoding
Whole(r) == IF r.ok /\ r.rest = <<>> THEN Some(r.val) ELSE None
\* rmp_serde::from_slice(bytes)
Decode(ts) == Whole(DecodeProxy(ts))

\* The proxies written and read back
WireInts ==
    {0, 42, 127, 128, 255, 256, 65535, 65536, 2147483647,
     -1, -32, -33, -128, -129, -32768, -32769, -2147483647}
WireAtoms ==
    {PNull, PUndefined, PString(""), PString("boom"), PFloat("3.14"), PFloat("-0.0"),
     PFloat("NaN"), PBoolean(TRUE), PBoolean(FALSE), PNativeArray(1), PNativeObject(70000),
     PFunction("a", 300), PJavaFunction(1, -1), PException("boom", "at <eval>"),
     PCompletableFuture(1, 2)}
    \cup {PInt(i) : i \in WireInts}

RECURSIVE WireDepth(_)
\* How deep arrays and objects nest in the proxy p
WireDepth(p) ==
    IF p.t = "Array" /\ p.elems # <<>> THEN 1 + WireDepth(p.elems[1])
    ELSE IF p.t = "Array" THEN 1
    ELSE IF p.t = "Object" THEN 1 + WireDepth(p.props[IF "b" \in DOMAIN p.props THEN "b" ELSE "a"])
    ELSE 0

\* The arrays and objects that hold the proxy x
Wraps(x) ==
    {PArray(<<>>), PArray(<<x>>), PArray(<<x, PInt(7)>>),
     PObject([a |-> x]), PObject([a |-> PInt(7), b |-> x])}

\* The proxies that can be written next: a proxy without parts, or one
\* that holds the proxy written before
WireProxies ==
    WireAtoms \cup (IF last.op = "serde" /\ WireDepth(last.sent) < MaxNest
                    THEN Wraps(last.sent) ELSE {})

\* The encoding bytes of the proxy p read back as got
Transmitted(p, bytes, got) ==
    /\ ~aborted
    /\ last' = [op |-> "serde", sent |-> p, bytes |-> bytes, got |-> got]
    /\ UNCHANGED <<globals, closed, restores, errors, aborted>>
    /\ UNCHANGED bridgeVars
    /\ UNCHANGED ctxVars

\* let bytes = rmp_serde::to_vec(&value); rmp_serde::from_slice(&bytes)
SerdeRoundTrip(p, flip) == Transmitted(p, Encode(p, flip), Decode(Encode(p, flip)))

(***************************************************************************)
(* Changing arrays and objects: through a handle (array_set, array_add,    *)
(* object_set_value, object_remove_value) and by script.  Indexes count    *)
(* from zero.                                                              *)
(***************************************************************************)
\* array.set(index, value), index not past the end
SetElem(elems, index, v) ==
    IF index < Len(elems) THEN [elems EXCEPT ![index + 1] = v] ELSE Append(elems, v)
\* splice(index, 0, value)
Splice(elems, index, v) ==
    SubSeq(elems, 1, index) \o <<v>> \o SubSeq(elems, index + 1, Len(elems))
\* object.set(key, value)
SetProp(props, key, v) ==
    [k \in DOMAIN props \cup {key} |-> IF k = key THEN v ELSE props[k]]
\* object.remove(key)
RemoveProp(props, key) == [k \in DOMAIN props \ {key} |-> props[k]]

\* The engine value id after the change how at the place at
Changed(obj, how, at, v) ==
    CASE how = "array_set" -> [obj EXCEPT !.elems = SetElem(@, at, v)]
      [] how = "array_add" -> [obj EXCEPT !.elems = Splice(@, at, v)]
      [] how = "object_set_value" -> [obj EXCEPT !.props = SetProp(@, at, v)]
      [] how = "object_remove_value" -> [obj EXCEPT !.props = RemoveProp(@, at)]

MutateCopy(m, id, how, at, v) ==
    [m EXCEPT !.heap = Append(@, Changed(m.heap[id], how, at, v))]
\* The change is made to the engine value itself
Mutate(m, id, how, at, v) ==
    [m EXCEPT !.heap[id] = Changed(@, how, at, v)]

ArrayChanges == {"array_set", "array_add"}
ObjectChanges == {"object_set_value", "object_remove_value"}
\* The places of a value a change can be made at
Places(obj, how) ==
    IF how \in ArrayChanges
    THEN IF obj.kind = "array" THEN 0..Len(obj.elems) ELSE {}
    ELSE IF obj.kind = "object" THEN {"a", "c"} ELSE {}

\* The record of a change: who made it, to which value, where, and what the
\* value was before
ChangeMade(by, ptr, id, how, at, v) ==
    [op |-> how, by |-> by, handle |-> ptr, target |-> id, at |-> at, val |-> v,
     before |-> heap[id]]

\* The changed machine m is installed
ChangeDone(m, rec) ==
    /\ Len(m.heap) <= MaxHeap
    /\ \A id \in DOMAIN m.heap : m.heap[id].kind = "array" => Len(m.heap[id].elems) <= MaxElems
    /\ Install(m)
    /\ last' = rec
    /\ UNCHANGED <<calls, made, convLog, globals, closed, restores, errors, aborted>>
    /\ UNCHANGED ctxVars

\* A value given to the engine (IntoJs) changes the restored array or object
ChangeWith(ptr, how, at, r) ==
    ChangeDone(Mutate(r.m, Restore(r.m, ptr).id, how, at, r.val),
               ChangeMade("handle", Some(ptr), Restore(r.m, ptr).id, how, at, r.val))

\* array_set, array_add, object_set_value, object_remove_value on a live handle
HandleChange(how, ptr, at, p) ==
    /\ ~aborted
    /\ ~IsClosed(ptr)
    /\ at \in Places(heap[Restore(Machine, ptr).id], how)
    /\ ChangeWith(ptr, how, at, IntoJs(Machine, p))

\* eval_script of a script that changes the value: a[i] = v, a.splice(i, 0, v),
\* o.k = v, delete o.k
EvalChange(id, how, at, v) ==
    /\ ~aborted
    /\ at \in Places(heap[id], how)
    /\ ChangeDone(Mutate(Machine, id, how, at, v), ChangeMade("script", None, id, how, at, v))

\* What a read at the place at through the handle ptr finds
Seen(m, ptr, at) ==
    IF m.heap[Restore(m, ptr).id].kind = "array"
    THEN IF at + 1 \in DOMAIN m.heap[Restore(m, ptr).id].elems
         THEN Some(m.heap[Restore(m, ptr).id].elems[at + 1]) ELSE None
    ELSE IF at \in DOMAIN m.heap[Restore(m, ptr).id].props
         THEN Some(m.heap[Restore(m, ptr).id].props[at]) ELSE None

(***************************************************************************)
(* Argument lists: a proxy given to invoke or call_function as the         *)
(* arguments of the call (IntoArgs for JSJavaProxy).                       *)
(***************************************************************************)
\* IntoArgs::num_args
NumArgs(p) ==
    CASE p.t = "Array" -> Len(p.elems)
      [] p.t = "Undefined" -> 0
      [] OTHER -> 1

\* args.push_arg(value): the proxy is materialized and appended
PushValue(a, p) == [m |-> IntoJs(a.m, p).m, args |-> Append(a.args, IntoJs(a.m, p).val)]

RECURSIVE PushValues(_, _, _)
\* for value in values { args.push_arg(value)?; }
PushValues(a, elems, i) ==
    IF i > Len(elems) THEN a ELSE PushValues(PushValue(a, elems[i]), elems, i + 1)

IntoArgsWhole(m, p) == PushValue([m |-> m, args |-> <<>>], p)
\* IntoArgs::into_args
IntoArgs(m, p) ==
    CASE p.t = "Array" -> PushValues([m |-> m, args |-> <<>>], p.elems, 1)
      [] p.t = "Undefined" -> [m |-> m, args |-> <<>>]
      [] OTHER -> PushValue([m |-> m, args |-> <<>>], p)

\* The argument proxies of the host
InvokeArgs ==
    {PArray(<<>>), PArray(<<PInt(1)>>), PArray(<<PInt(1), PString("boom")>>),
     PArray(<<PString("boom"), PInt(1), PNull>>), PArray(<<PUndefined>>),
     PArray(<<PArray(<<PInt(1), PInt(2)>>)>>),
     PUndefined, PNull, PInt(42), PString("boom"), PBoolean(TRUE)}
        \cup {q \in HostHandles : q.t = "NativeArray"}

\* function.call(args): the script function, function a() { return 1; },
\* runs with the arguments a.args
Called(op, handle, p, a) ==
    /\ Len(a.m.heap) <= MaxHeap
    /\ Install(a.m)
    /\ last' = [op |-> op, handle |-> handle, live |-> TRUE, outcome |-> "ok",
                args |-> p, count |-> NumArgs(p), received |-> a.args,
                result |-> Some(Convert(a.m, VInt(1)).proxy)]
    /\ UNCHANGED <<calls, made, convLog, globals, closed, restores, errors, aborted>>
    /\ UNCHANGED ctxVars

\* invoke(ctx, name, args) of a global that is a function
Invoke(p) ==
    /\ ~aborted
    /\ \E id \in DOMAIN heap : heap[id].kind = "function"
    /\ Called("invoke", None, p, IntoArgs(Machine, p))

\* call_function(ctx, handle, args) on a live handle
CallFunctionWith(ptr, p) ==
    /\ ~aborted
    /\ ~IsClosed(ptr)
    /\ Called("call_function", Some(ptr), p, IntoArgs(Machine, p))

(***************************************************************************)
(* The packed word: a buffer's address and length in one 64-bit value, as  *)
(* into_wasm builds it and as the host function adapter takes it apart.    *)
(* usize has PtrBits bits, u64 and i64 have twice as many.                 *)
(***************************************************************************)
\* The number of values of a usize, and of a u64
Half == 2 ^ PtrBits
WordSpace == Half * Half

\* x as u64, of a usize or an i64
AsU64(x) == x % WordSpace
\* x as i64, of a u64: the same bits read as a signed number
AsI64(x) == IF x >= WordSpace \div 2 THEN x - WordSpace ELSE x
AsUsizeWide(x) == x
\* x as usize, x as *const u8: the low bits
AsUsize(x) == x % Half
\* x >> 32, of a u64 (zeros come in) and of an i64 (the sign comes in)
ShiftRight(x) == x \div Half
\* x << 32 of a u64: the bits shifted out are lost
ShiftLeft(x) == (x * Half) % WordSpace
\* a | b where a has no low bits and b no high ones
BitOr(a, b) == a + b
\* x & 0xFFFFFFFF of a u64
LowBits(x) == x % Half

\* IntoWasmResult for JSJavaProxy: ((ptr as u64) << 32) | (len as u64)
IntoWasm(ptr, len) == BitOr(ShiftLeft(AsU64(ptr)), AsU64(len))

\* JavaFunction::new in quickjs_function.rs: the i64 of the host is cast to
\* u64, then shifted and masked
UnpackUnsigned(result) ==
    [ptr |-> AsUsize(ShiftRight(AsU64(result))), len |-> AsUsize(LowBits(AsU64(result)))]
\* JavaFunction::new in js_to_java_proxy.rs: the i64 is shifted as it is and
\* both parts are cast
UnpackSigned(result) ==
    [ptr |-> AsUsize(ShiftRight(result)), len |-> AsUsize(result)]

\* call_java_function returns: the host has written len bytes at ptr and
\* returns the packed word as a long; the adapter takes it apart
HostReturns(site, ptr, len) ==
    /\ ~aborted
    /\ last' = [op |-> "call_java_function", site |-> site,
                sent |-> [ptr |-> ptr, len |-> len],
                word |-> AsI64(IntoWasm(ptr, len)),
                got |-> IF site = "quickjs_function"
                        THEN UnpackUnsigned(AsI64(IntoWasm(ptr, len)))
                        ELSE UnpackSigned(AsI64(IntoWasm(ptr, len)))]
    /\ UNCHANGED <<globals, closed, restores, errors, aborted>>
    /\ UNCHANGED bridgeVars
    /\ UNCHANGED ctxVars

(***************************************************************************)
(* Promises of the host: promise_create, promise_resolve, promise_reject.  *)
(***************************************************************************)
\* The container handles the host holds: from promise_create and from the
\* FutureHandle proxies of conversions
HostContainers == {p.ptr : p \in HostFutures}

\* The values the host settles its promises with
HostSettleValues == {PInt(42), PString("boom"), PException("boom", "")}

CallSettleIgnored(m, id, how, v) == m
\* The resolve and reject functions of a promise: the first call settles
\* the promise, a later one does nothing
CallSettle(m, id, how, v) ==
    IF m.heap[id].state = "pending" THEN SettlePromise(m, id, how, v) ELSE m

\* self.resolve.clone().unwrap() / self.reject.clone().unwrap(): the
\* functions are there when promise_create made the container
HoldsFunctions(box) == box.settle

\* resolve.call((This(promise), value)): the value is materialized, the
\* function is called with it
ContainerSettle(m, ptr, how, r) == CallSettle(r.m, m.boxes[ptr].ref, how, r.val)

\* What promise_resolve / promise_reject tells the host
SettleCall(op, ptr, p, r, result) ==
    [op |-> op, handle |-> Some(ptr), value |-> p, val |-> r.val,
     before |-> heap[boxes[ptr].ref].state, result |-> result]

\* The container's function was called and the export returns Ok(true)
SettleReturned(op, ptr, p, r, m) ==
    /\ Len(m.heap) <= MaxHeap
    /\ WithinBounds(m, calls)
    /\ Install(m)
    /\ aborted' = FALSE
    /\ last' = SettleCall(op, ptr, p, r, Some(TRUE))

\* The unwrap of a missing function panics: the call does not return
SettlePanicked(op, ptr, p, r) ==
    /\ aborted' = TRUE
    /\ last' = SettleCall(op, ptr, p, r, None)
    /\ UNCHANGED <<heap, boxes, jobs, nfut, creates>>

SettleHow(op) == IF op = "promise_resolve" THEN "resolved" ELSE "rejected"

\* promise_resolve(ctx, cf, value) / promise_reject(ctx, cf, value)
PromiseSettle(op, ptr, p) ==
    /\ ~aborted
    /\ boxes[ptr].ty = "PromiseContainer"
    /\ IF HoldsFunctions(boxes[ptr])
       THEN SettleReturned(op, ptr, p, IntoJs(Machine, p),
                           ContainerSettle(Machine, ptr, SettleHow(op), IntoJs(Machine, p)))
       ELSE SettlePanicked(op, ptr, p, IntoJs(Machine, p))
    /\ UNCHANGED <<calls, made, convLog, globals, closed, restores, errors>>
    /\ UNCHANGED ctxVars

(***************************************************************************)
(* Script errors at the boundary (FromError) and the host function adapter *)
(* (JavaFunction).                                                         *)
(***************************************************************************)
\* Display of rquickjs::Error::Exception
ExceptionText == "Exception generated by QuickJS"

\* Exception::message() / stack(): the property as a string, None when the
\* property is undefined
Message(e) == e.message
Stack(e) == e.stk

\* FromError for JSJavaProxy, for an error raised by a thrown script value:
\* message().unwrap() and stack().unwrap() panic on None
FromErr(h, v) ==
    IF IsKind(h, v, "error")
    THEN IF Message(h[v.id]) = None \/ Stack(h[v.id]) = None
         THEN [abort |-> TRUE, proxy |-> None]
         ELSE [abort |-> FALSE,
               proxy |-> Some(PException(Message(h[v.id])[1], Stack(h[v.id])[1]))]
    ELSE [abort |-> FALSE, proxy |-> Some(PException(ExceptionText, ""))]

\* A native function returns Err(e), e not Error::Exception: the engine
\* throws a new Error object with the text of e
ThrowError(m, text) ==
    [m |-> [m EXCEPT !.heap = Append(@, ErrorObj(Some(text), Some(NativeStack)))],
     val |-> VRef(Len(m.heap) + 1)]

UndecodableReplyThrown == PException("MsgPack decode failed", "")
\* rmp_serde::from_slice failed: error!(..), JSJavaProxy::Undefined
UndecodableReply == PUndefined

\* The reply of the host as the adapter decodes it: reply is None when the
\* bytes are no encoding of a proxy
Decoded(reply) == IF reply = None THEN UndecodableReply ELSE reply[1]

AdapterNeverThrows(result) == FALSE
\* if let JSJavaProxy::Exception(message, _stacktrace) = &result
AdapterThrows(result) == result.t = "Exception"

RECURSIVE ConvertArgs(_, _, _, _)
RECURSIVE PushArg(_, _, _, _)
RECURSIVE PushArgSkipping(_, _, _, _)
PushArgSkipping(r, params, i, acc) ==
    ConvertArgs(r.m, params, i + 1, IF r.ok THEN Append(acc, r.proxy) ELSE acc)

\* args.push(JSJavaProxy::convert(v)?)
PushArg(r, params, i, acc) ==
    IF r.ok THEN ConvertArgs(r.m, params, i + 1, Append(acc, r.proxy))
    ELSE [ok |-> FALSE, m |-> r.m, args |-> acc]

\* for i in 0..params.len(): the arguments are converted one by one
ConvertArgs(m, params, i, acc) ==
    IF i > Len(params) THEN [ok |-> TRUE, m |-> m, args |-> acc]
    ELSE PushArg(Convert(m, params[i]), params, i, acc)

\* The adapter ends by throwing the Error object t.val
AdapterThrew(t, called, sent, logged) ==
    [m |-> t.m, called |-> called, sent |-> sent, logged |-> logged,
     thrown |-> Some(t.val), returned |-> None]

\* The adapter ends by returning the materialized reply r.val
AdapterReturned(r, sent, logged) ==
    [m |-> r.m, called |-> TRUE, sent |-> sent, logged |-> logged,
     thrown |-> None, returned |-> Some(r.val)]

\* JavaFunction::call after the conversion a of the arguments: they are
\* sent as one Array; the decoded reply is thrown (an Exception) or
\* materialized and returned
AdapterOutcome(a, reply, result) ==
    IF ~a.ok
    THEN AdapterThrew(ThrowError(a.m, "Unknown"), FALSE, None, FALSE)
    ELSE IF AdapterThrows(result)
    THEN AdapterThrew(ThrowError(a.m, result.msg), TRUE, Some(PArray(a.args)), reply = None)
    ELSE AdapterReturned(IntoJs(a.m, result), Some(PArray(a.args)), reply = None)

\* JavaFunction::call
JavaFunctionCall(m, params, reply) ==
    AdapterOutcome(ConvertArgs(m, params, 1, <<>>), reply, Decoded(reply))

\* The global holds a host function (set_global with a JavaFunction proxy)
HostFunctionSet ==
    /\ globals # None
    /\ globals[1].from.t = "JavaFunction"

\* The argument lists scripts pass to the host function
ScriptArgs == {<<>>, <<VInt(42)>>, <<VSymbol>>}
\* What the host answers: None for bytes that decode to no proxy
HostReplies ==
    {None} \cup {Some(p) : p \in {PNull, PUndefined, PInt(42), PArray(<<PInt(1)>>),
                                  PException("boom", "at Host.call")}}

\* The wasm_export wrapper of eval_script: Err(err) => FromError::from_err
Raised(m, e) == [m |-> m, abort |-> e.abort, proxy |-> e.proxy]
\* The wasm_export wrapper of eval_script: Ok(value) => value
Passed(r) == [m |-> r.m, abort |-> FALSE, proxy |-> Some(r.proxy)]

\* What eval_script gives for a script that evaluates to the call c
ScriptResult(c) ==
    IF c.thrown # None
    THEN Raised(c.m, FromErr(c.m.heap, c.thrown[1]))
    ELSE Passed(Convert(c.m, c.returned[1]))

\* JavaFunction::new(context, func): the closure calls call_java_function
\* with the ids it captured
HostTarget(f) == [ctx |-> f.host.ctx, fn |-> f.host.fn]

\* The call c of the host function and the result r of the script
CallHost(c, r, reply, params) ==
    /\ ~aborted
    /\ HostFunctionSet
    /\ Len(c.m.heap) <= MaxHeap
    /\ WithinBounds(r.m, calls)
    /\ c.logged => errors < MaxErrors
    /\ Install(r.m)
    /\ errors' = IF c.logged THEN errors + 1 ELSE errors
    /\ aborted' = r.abort
    /\ last' = [op |-> "eval_script", adapter |-> TRUE, called |-> c.called,
                params |-> params, to |-> HostTarget(heap[globals[1].val.id]),
                sent |-> c.sent, reply |-> reply, logged |-> c.logged,
                thrown |-> c.thrown, returned |-> c.returned, proxy |-> r.proxy]
    /\ UNCHANGED <<calls, made, convLog, globals, closed, restores>>
    /\ UNCHANGED ctxVars

\* eval_script of a script that calls the host function and evaluates to
\* its result: f(args)
EvalCallHost(params, reply) ==
    CallHost(JavaFunctionCall(Machine, params, reply),
             ScriptResult(JavaFunctionCall(Machine, params, reply)), reply, params)

\* eval_script of a script that throws the value v: throw v
EvalThrow(v) ==
    LET e == FromErr(heap, v) IN
    /\ ~aborted
    /\ aborted' = e.abort
    /\ last' = [op |-> "eval_script", adapter |-> FALSE, called |-> FALSE,
                sent |-> None, reply |-> None, logged |-> FALSE,
                thrown |-> Some(v), returned |-> None, proxy |-> e.proxy]
    /\ UNCHANGED <<globals, closed, restores, errors>>
    /\ UNCHANGED bridgeVars
    /\ UNCHANGED ctxVars

\* The argument lists of the calls whose arguments are looked at: none,
\* one, several, and lists with a value that has no proxy
CallArgs ==
    {<<>>, <<VInt(42)>>, <<VString("boom"), VInt(42)>>, <<VInt(42), VBool(TRUE), VNull>>,
     <<VSymbol>>, <<VInt(42), VSymbol>>, <<VSymbol, VInt(42)>>}
\* The functions of the host
HostFunctions == {PJavaFunction(1, 1), PJavaFunction(1, 2), PJavaFunction(2, 1)}

\* The Error objects of the scripts: new Error("boom"), and the same with
\* its message or its stack set to undefined
ThrowLiterals ==
    {ErrorLiteral, ErrorObj(None, Some("at <eval>")), ErrorObj(Some("boom"), None),
     ObjectLiteral}

InitBridge ==
    /\ heap = <<>>
    /\ boxes = <<>>
    /\ jobs = <<>>
    /\ nfut = 0
    /\ creates = <<>>
    /\ calls = <<>>
    /\ made = {}
    /\ convLog = {}

InitCtx ==
    /\ stack = <<>>
    /\ frames = <<>>
    /\ scopes = [c \in 1..MaxContexts |-> 0]
    /\ exitLog = [pushed |-> FALSE, outcome |-> "none", before |-> <<>>, after |-> <<>>]
    /\ trapped = FALSE

InitHost ==
    /\ globals = None
    /\ closed = {}
    /\ restores = [ptr |-> 0, n |-> 0]
    /\ errors = 0
    /\ aborted = FALSE
    /\ last = [op |-> "none"]

Init == InitBridge /\ InitCtx /\ InitHost

\* The promise bridge: scripts create and settle promises, the host converts
\* them, hands them back and drives the job queue
Next ==
    \/ \E obj \in BridgeLiterals(heap) : EvalCreate(obj)
    \/ \E v \in Refs(heap) : EvalReturn(v)
    \/ \E id \in PromiseIds(heap), how \in {"resolved", "rejected"}, v \in Values(heap) :
          EvalSettle(id, how, v)
    \/ PromiseCreate
    \/ \E p \in HostFutures : Materialize(p)
    \/ Poll

Spec == Init /\ [][Next]_vars

\* Value conversion alone: scripts create values and return them to the host
NextConvert ==
    \/ \E obj \in Literals(heap) : EvalCreate(obj)
    \/ \E v \in ReturnValues(heap) : EvalReturn(v)

SpecConvert == Init /\ [][NextConvert]_vars

\* Classification: scripts create objects of every kind and return them,
\* null, undefined and numbers to the host
NextClassify ==
    \/ \E obj \in Literals(heap) : EvalCreate(obj)
    \/ \E v \in ClassifyValues(heap) : EvalReturn(v)

SpecClassify == Init /\ [][NextClassify]_vars

\* Round trips: the host stores proxies it built, or future handles it
\* holds, in the engine and reads them back
NextRound ==
    \/ EvalCreate(PromiseObj)
    \/ PromiseCreate
    \/ \E v \in Refs(heap) : IsKind(heap, v, "promise") /\ EvalReturn(v)
    \/ \E p \in RoundProxies \cup HostFutures : SetGlobal(p)
    \/ GetGlobal

SpecRound == Init /\ [][NextRound]_vars

\* Handles: scripts return compound values (each once), the host reads
\* through the handles it got and releases them
NextHandle ==
    \/ \E obj \in {ArrayLiteral, ObjectLiteral, FunctionObj("a")} : EvalCreate(obj)
    \/ \E v \in Refs(heap) : (\A b \in DOMAIN boxes : boxes[b].ref # v.id) /\ EvalReturn(v)
    \/ \E ptr \in HandlesOf("Array") : ArraySize(ptr)
    \/ \E ptr \in HandlesOf("Array"), i \in {1, 4} : ArrayGet(ptr, i)
    \/ \E ptr \in HandlesOf("Function") : CallFunction(ptr)
    \/ \E p \in HostHandles : SetGlobal(p)
    \/ \E ptr \in HandlesOf("Array") : Close("array_close", ptr)
    \/ \E ptr \in HandlesOf("Object") : Close("object_close", ptr)
    \/ \E ptr \in HandlesOf("Function") : Close("close_function", ptr)

SpecHandle == Init /\ [][NextHandle]_vars

\* Errors: scripts throw, and scripts call a function of the host, which
\* answers with a value, with an exception or with bytes that do not decode
NextAdapter ==
    \/ SetGlobal(PJavaFunction(1, 1))
    \/ \E params \in ScriptArgs, reply \in HostReplies : EvalCallHost(params, reply)
    \/ \E obj \in ThrowLiterals : EvalCreate(obj)
    \/ \E v \in Values(heap) : EvalThrow(v)

SpecAdapter == Init /\ [][NextAdapter]_vars

\* Settlement: a script makes a promise, the host gets it, a script settles
\* it with a value it creates, and the job queue runs
NextSettle ==
    \/ EvalCreate(PromiseObj)
    \/ \E v \in Refs(heap) : IsKind(heap, v, "promise") /\ EvalReturn(v)
    \/ \E id \in PromiseIds(heap), how \in {"resolved", "rejected"}, s \in SettleShapes :
          EvalSettleWith(id, how, s)
    \/ Poll

SpecSettle == Init /\ [][NextSettle]_vars

\* Property reads: scripts make a promise and an object holding it, the host
\* gets the object and reads its properties through the handle; the promise
\* may be settled with 42 before or after the read
NextObject ==
    \/ EvalCreate(PromiseObj)
    \/ \E obj \in Holders(heap) : EvalCreate(obj)
    \/ \E v \in Refs(heap) : IsKind(heap, v, "object") /\ EvalReturn(v)
    \/ \E ptr \in HandlesOf("Object"), key \in HostKeys : ObjectGetValue(ptr, key)
    \/ \E ptr \in HandlesOf("Object") : Close("object_close", ptr)
    \/ \E id \in PromiseIds(heap), how \in {"resolved", "rejected"} :
          EvalSettleWith(id, how, [kind |-> "nested", n |-> 0])
    \/ Poll

SpecObject == Init /\ [][NextObject]_vars

\* The job queue: scripts start asynchronous work or make promises the host
\* gets, settle them with 42 or with a symbol, and the host polls
NextQueue ==
    \/ EvalScriptAsync
    \/ EvalCreate(PromiseObj)
    \/ \E v \in Refs(heap) : IsKind(heap, v, "promise") /\ EvalReturn(v)
    \/ \E id \in PromiseIds(heap), how \in {"resolved", "rejected"}, v \in {VInt(42), VSymbol} :
          EvalSettle(id, how, v)
    \/ PollReturn

SpecQueue == Init /\ [][NextQueue]_vars

\* The host keeps calling poll: after whatever else it does, it polls again
SpecDrain == Init /\ [][NextQueue]_vars /\ WF_vars(PollReturn)

\* The wire format alone: proxies are written and read back
NextWire == \E p \in WireProxies, flip \in BOOLEAN : SerdeRoundTrip(p, flip)

SpecWire == Init /\ [][NextWire]_vars

\* Promises of the host and of scripts: the host creates a promise or gets
\* one from a script, settles through the container handles it holds, and
\* drives the job queue
NextPromise ==
    \/ PromiseCreate
    \/ EvalCreate(PromiseObj)
    \/ \E v \in Refs(heap) : IsKind(heap, v, "promise") /\ EvalReturn(v)
    \/ \E op \in {"promise_resolve", "promise_reject"}, ptr \in HostContainers,
          p \in HostSettleValues : PromiseSettle(op, ptr, p)
    \/ Poll

SpecPromise == Init /\ [][NextPromise]_vars

\* Calls of host functions: the host installs one of its functions as the
\* global, scripts call it with argument lists of several lengths
NextCall ==
    \/ \E f \in HostFunctions : SetGlobal(f)
    \/ \E params \in CallArgs, reply \in {Some(PInt(42)), Some(PNull)} :
          EvalCallHost(params, reply)

SpecCall == Init /\ [][NextCall]_vars

\* Aliasing: a script makes an array or an object, the host gets handles to
\* it, and both change it and read it
NextAlias ==
    \/ \E obj \in {ArrayLiteral, ObjectLiteral} : heap = <<>> /\ EvalCreate(obj)
    \/ \E v \in Refs(heap) : EvalReturn(v)
    \/ \E how \in ArrayChanges, ptr \in HandlesOf("Array"), at \in 0..MaxElems :
          HandleChange(how, ptr, at, PInt(7))
    \/ \E how \in ObjectChanges, ptr \in HandlesOf("Object"), at \in {"a", "c"},
          p \in {PInt(7)} \cup {q \in HostHandles : q.t = "NativeObject"} :
          HandleChange(how, ptr, at, p)
    \/ \E id \in DOMAIN heap, how \in ArrayChanges, at \in 0..MaxElems :
          EvalChange(id, how, at, VInt(7))
    \/ \E id \in DOMAIN heap, how \in ObjectChanges, at \in {"a", "c"} :
          EvalChange(id, how, at, VInt(7))
    \/ \E ptr \in HandlesOf("Array"), i \in 1..MaxElems : ArrayGet(ptr, i)
    \/ \E ptr \in HandlesOf("Array") : ArraySize(ptr)
    \/ \E ptr \in HandlesOf("Object"), key \in {"a", "c"} : ObjectGetValue(ptr, key)

SpecAlias == Init /\ [][NextAlias]_vars

\* Packed words: the host returns buffers at any address and of any length
\* to either copy of the adapter
NextWord ==
    \E site \in {"quickjs_function", "js_to_java_proxy"}, ptr \in 0..(Half - 1),
       len \in 0..(Half - 1) : HostReturns(site, ptr, len)

SpecWord == Init /\ [][NextWord]_vars

\* Calls with arguments: scripts define a function and an array, the host
\* gets handles to them and calls the function by name and by handle
NextInvoke ==
    \/ \E obj \in {FunctionObj("a"), ArrayLiteral} :
          (\A id \in DOMAIN heap : heap[id].kind # obj.kind) /\ EvalCreate(obj)
    \/ \E v \in Refs(heap) : (\A b \in DOMAIN boxes : boxes[b].ref # v.id) /\ EvalReturn(v)
    \/ \E p \in InvokeArgs : Invoke(p)
    \/ \E ptr \in HandlesOf("Function"), p \in InvokeArgs : CallFunctionWith(ptr, p)

SpecInvoke == Init /\ [][NextInvoke]_vars

(***************************************************************************)
(* Evaluation scopes and the context re-entrancy stack.                    *)
(*                                                                         *)
(* A frame is a call in flight: an exported operation that takes the scope *)
(* (kind "export", entered through the wasm_export wrapper), an exported   *)
(* operation that takes the context (kind "create") or a with_context      *)
(* call.  scopes counts, per context, the Context::with calls in flight.   *)
(***************************************************************************)
Contexts == 1..MaxContexts
ScopeExports == {"eval_script", "invoke", "call_function", "poll"}
ContextExports == {"array_create", "object_create", "promise_create"}

Top == frames[Len(frames)]
Pop(s) == SubSeq(s, 1, Len(s) - 1)

\* A call can start: at top level, or from the host while the innermost
\* call runs script (a host function adapter called out) or a closure
CanCall ==
    /\ ~trapped
    /\ Len(frames) < MaxDepth
    /\ frames # <<>> => (Top.kind # "create" /\ ~Top.unwinding)

\* stack.iter().rev().find(|(ptr, _)| *ptr == context_ptr): the scope token
\* of the most recent entry for the context
ExistingCtx(c) ==
    stack[CHOOSE i \in DOMAIN stack :
              /\ stack[i].ctx = c
              /\ \A j \in DOMAIN stack : j > i => stack[j].ctx # c].tok

\* A call in flight; tok is the scope its body runs with, its own if it
\* opened one
Frame(fn, c, kind, opened, pushed) ==
    [fn |-> fn, ctx |-> c, kind |-> kind, opened |-> opened, pushed |-> pushed,
     tok |-> IF opened THEN Len(frames) + 1 ELSE ExistingCtx(c),
     before |-> stack, unwinding |-> FALSE]

\* Context::with: a scope is opened; the engine refuses to open a second
\* one for a context whose scope is open, and the call never returns
ContextWith(c) ==
    /\ scopes' = [scopes EXCEPT ![c] = @ + 1]
    /\ trapped' = (scopes[c] >= 1)

\* wasm_export for a function with a &Ctx parameter: context.with(|ctx| ..)
CallExport(fn, c) ==
    /\ CanCall
    /\ ContextWith(c)
    /\ frames' = Append(frames, Frame(fn, c, "export", TRUE, FALSE))
    /\ UNCHANGED <<stack, exitLog>>
    /\ UNCHANGED bridgeVars
    /\ UNCHANGED hostVars

\* array_create, object_create, promise_create: context.with(|ctx| ..)
CallCreate(fn, c) ==
    /\ CanCall
    /\ ContextWith(c)
    /\ frames' = Append(frames, Frame(fn, c, "create", TRUE, FALSE))
    /\ UNCHANGED <<stack, exitLog>>
    /\ UNCHANGED bridgeVars
    /\ UNCHANGED hostVars

OnTop(c) == stack # <<>> /\ stack[Len(stack)].ctx = c
PushTwice(s, entry) == Append(Append(s, entry), entry)
\* stack.borrow_mut().push((context_ptr, static_ctx))
Push(s, entry) == Append(s, entry)

\* with_context: the stack is searched from the top for the context; the
\* closure given to context.with pushes the entry, and does not run when the
\* engine refuses the scope
OnStack(c) == \E i \in DOMAIN stack : stack[i].ctx = c

WithContext(c) ==
    /\ CanCall
    /\ IF OnStack(c)
       THEN /\ frames' = Append(frames, Frame("with_context", c, "with_context", FALSE, FALSE))
            /\ UNCHANGED <<stack, scopes, trapped>>
       ELSE /\ ContextWith(c)
            /\ stack' = IF scopes[c] >= 1 THEN stack
                        ELSE Push(stack, [ctx |-> c, tok |-> Len(frames) + 1])
            /\ frames' = Append(frames, Frame("with_context", c, "with_context", TRUE,
                                              scopes[c] = 0))
    /\ UNCHANGED exitLog
    /\ UNCHANGED bridgeVars
    /\ UNCHANGED hostVars

OwnsAlways(frame) == TRUE
\* Only the branch of with_context that pushed an entry makes a ContextGuard
Owns(frame) == frame.pushed

PopOnReturn(s, outcome) == IF outcome = "panic" THEN s ELSE Pop(s)
\* ContextGuard::drop runs on return and on unwinding alike
GuardDrop(s, outcome) == Pop(s)

\* The innermost call ends: by returning a value, by returning an error
\* result, or by a panic, which unwinds the calls around it as well
Return(outcome) ==
    /\ ~trapped
    /\ frames # <<>>
    /\ Top.unwinding => outcome = "panic"
    /\ stack' = IF Owns(Top) THEN GuardDrop(stack, outcome) ELSE stack
    /\ scopes' = IF Top.opened THEN [scopes EXCEPT ![Top.ctx] = @ - 1] ELSE scopes
    /\ frames' = IF outcome = "panic" /\ Len(frames) > 1
                 THEN [Pop(frames) EXCEPT ![Len(frames) - 1].unwinding = TRUE]
                 ELSE Pop(frames)
    /\ exitLog' = IF Top.kind = "with_context"
                  THEN [pushed |-> Top.pushed, outcome |-> outcome,
                        before |-> Top.before, after |-> stack']
                  ELSE exitLog
    /\ UNCHANGED trapped
    /\ UNCHANGED bridgeVars
    /\ UNCHANGED hostVars

NextContext ==
    \/ \E fn \in ScopeExports, c \in Contexts : CallExport(fn, c)
    \/ \E fn \in ContextExports, c \in Contexts : CallCreate(fn, c)
    \/ \E c \in Contexts : WithContext(c)
    \/ \E outcome \in {"normal", "error", "panic"} : Return(outcome)

SpecContext == Init /\ [][NextContext]_vars

\* Lifetime of handles: scripts make one array, object or function and one
\* promise and return the value again and again; the host reads through the
\* handles, stores them in the engine and releases them, the promise is
\* settled and the queue polled, and all of it inside or outside a call
NextLifetime ==
    \/ \E obj \in {ArrayLiteral, ObjectLiteral, FunctionObj("a")} :
          (\A id \in DOMAIN heap : heap[id].kind = "promise") /\ EvalCreate(obj)
    \/ PromiseIds(heap) = {} /\ EvalCreate(PromiseObj)
    \/ \E v \in Refs(heap) :
          (IsKind(heap, v, "promise") => \A b \in DOMAIN boxes : boxes[b].ref # v.id)
          /\ EvalReturn(v)
    \/ \E ptr \in HandlesOf("Array") : ArraySize(ptr)
    \/ \E ptr \in HandlesOf("Function") : CallFunction(ptr)
    \/ \E p \in HostHandles : SetGlobal(p)
    \/ \E ptr \in HandlesOf("Array") : Close("array_close", ptr)
    \/ \E ptr \in HandlesOf("Object") : Close("object_close", ptr)
    \/ \E ptr \in HandlesOf("Function") : Close("close_function", ptr)
    \/ \E id \in PromiseIds(heap) : EvalSettle(id, "resolved", VInt(42))
    \/ Poll
    \/ frames = <<>> /\ CallExport("eval_script", 1)
    \/ Return("normal")

SpecLifetime == Init /\ [][NextLifetime]_vars

(***************************************************************************)
(* Properties.                                                             *)
(***************************************************************************)
\* The complete_completable_future calls made for future f
Completions(f) == {i \in DOMAIN calls : calls[i].completed /\ calls[i].fut = f}
\* The promise was converted at the boundary at least once
Converted(id) == \E e \in convLog : e.val = VRef(id)
\* The promise has settled and the job queue has been driven until empty
Drained(id) == heap[id].state # "pending" /\ jobs = <<>>
\* The promise a FutureHandle proxy points to
PromiseOf(p) == boxes[p.ptr].ref

\* C1: once a converted promise has settled and the job queue is empty,
\* complete_completable_future has been called exactly once for its future
\* id, whether it resolved or rejected and however often it was converted.
C1_ExactlyOnce ==
    \A id \in PromiseIds(heap) :
        (Converted(id) /\ Drained(id))
            => Cardinality(Completions(heap[id].cf[1])) = 1

\* C2: a bridged promise rejected with the string "boom" causes exactly one
\* completion call, with the reject flag, its future id and the payload
\* Exception("boom", _).
C2_RejectBoom ==
    \A id \in PromiseIds(heap) :
        (Converted(id) /\ Drained(id) /\ heap[id].state = "rejected"
            /\ heap[id].value = VString("boom"))
            => /\ Cardinality(Completions(heap[id].cf[1])) = 1
               /\ \A i \in Completions(heap[id].cf[1]) :
                     /\ calls[i].reject
                     /\ calls[i].payload[1].t = "Exception"
                     /\ calls[i].payload[1].msg = "boom"

\* C3: a bridged promise resolved with 42 causes exactly one completion call
\* with flag 0, its future id and Int(42); in general the payload of a
\* resolution is convert(resolved value) and the flag is that of the path by
\* which the promise settled.
C3_ResolveInt ==
    \A id \in PromiseIds(heap) :
        (Converted(id) /\ Drained(id))
            => /\ (heap[id].state = "resolved" /\ heap[id].value = VInt(42))
                    => /\ Cardinality(Completions(heap[id].cf[1])) = 1
                       /\ \A i \in Completions(heap[id].cf[1]) :
                             ~calls[i].reject /\ calls[i].payload = Some(PInt(42))
               /\ \A i \in Completions(heap[id].cf[1]) :
                     /\ calls[i].reject = (heap[id].state = "rejected")
                     /\ (heap[id].state = "resolved" /\ heap[id].value.t # "ref")
                            => calls[i].payload[1] = Convert(Machine, heap[id].value).proxy

\* C4: while a scope-taking call for a context is in flight, a nested call
\* for the same context reuses the active scope: it opens no scope of its own.
C4_ReusesScope ==
    \A i, j \in DOMAIN frames :
        (i < j /\ frames[i].kind = "export" /\ frames[j].ctx = frames[i].ctx)
            => ~frames[j].opened

\* C5: when a with_context call ends, by return, error or panic, the context
\* stack is what it was when the call began, and the stack is empty whenever
\* no call is in flight.
C5_StackRestored ==
    /\ exitLog.after = exitLog.before
    /\ frames = <<>> => stack = <<>>

\* C5 witness: a with_context call that pushed its entry on top of another
\* context's entry has ended by a panic.
C5_Witness ==
    /\ exitLog.pushed
    /\ exitLog.outcome = "panic"
    /\ exitLog.before # <<>>

\* C6: all FutureHandle proxies the host receives for one promise carry the
\* same future id, and create_completable_future is called at most once per
\* promise.
C6_SameFutureId ==
    /\ \A p, q \in HostFutures : PromiseOf(p) = PromiseOf(q) => p.fut = q.fut
    /\ \A id \in PromiseIds(heap) :
          Cardinality({i \in DOMAIN creates : boxes[creates[i].ptr].ref = id}) <= 1

\* C6 witness: a pending promise was converted twice (it carries the four
\* reactions of two conversions) with a single create_completable_future call.
C6_Witness ==
    \E id \in PromiseIds(heap) :
        /\ Len(heap[id].reactions) = 4
        /\ Converted(id)
        /\ Len(creates) = 1

\* C7: every promise has at most one bridge record: at most one future id
\* and at most one PromiseContainer, also when it came from promise_create.
C7_OneRecord ==
    \A id \in PromiseIds(heap) :
        /\ Cardinality({b \in DOMAIN boxes :
               boxes[b].ty = "PromiseContainer" /\ boxes[b].ref = id}) <= 1
        /\ Cardinality({p.fut : p \in {q \in HostFutures : PromiseOf(q) = id}}) <= 1

\* C8: a settlement callback whose value cannot be converted still completes
\* the future, with an Exception proxy.
C8_CompletesOnFailure ==
    \A i \in DOMAIN calls :
        ~calls[i].convOk
            => (calls[i].completed /\ calls[i].payload[1].t = "Exception")

HandleVariant(kind) ==
    CASE kind = "array" -> "NativeArray"
      [] kind = "object" -> "NativeObject"
      [] kind = "function" -> "Function"
      [] kind = "promise" -> "CompletableFuture"

C10_InlineCopies ==
    \A e \in convLog :
        e.val.t = "ref" =>
            /\ heap[e.val.id] = ArrayLiteral
                  => e.proxy = PArray(<<PInt(1), PInt(2), PInt(3)>>)
            /\ heap[e.val.id] = ObjectLiteral
                  => e.proxy = PObject([a |-> PInt(1), b |-> PInt(2)])

\* C11: a proxy of a copied variant (Null, Undefined, Int, Float, Boolean,
\* String, nested Array, nested Object) that is materialized and converted
\* back comes back equal to the original.
C11_RoundTrip ==
    (last.op = "get_global" /\ last.sent # None /\ last.sent[1] \in RoundProxies)
        => (last.ok /\ last.proxy = last.sent[1])

\* C20: after FutureHandle(f, h) was materialized, converting the promise
\* returns FutureHandle(f, h) again, with the same future id and the same
\* handle, and the host is not asked for a new future.
C20_FutureRoundTrip ==
    (last.op = "get_global" /\ last.sent # None /\ last.sent[1].t = "CompletableFuture")
        => (last.ok /\ last.proxy = last.sent[1] /\ last.created = 0)

\* The conversion that made (persisted) the handle ptr
Persisted(ptr) == {e \in convLog : e.proxy \in HostHandles /\ e.proxy.ptr = ptr}

\* C12: a read through a handle that no close call has released succeeds
\* and gives the engine value the handle was made for, however often the
\* handle has been read before; only a close call ends a handle.
C12_RestoreKeepsHandle ==
    /\ \A c \in closed : c.by \in CloseExports
    /\ (last.op \in RestoreExports /\ last.handle # None /\ last.live)
          => /\ last.outcome = "ok"
             /\ \A e \in Persisted(last.handle[1]) : last.ref = Some(e.val)
             /\ last.op = "array_size"
                   => last.result = Some(Len(heap[last.ref[1].id].elems))
             /\ last.op = "call_function" => last.result = Some(PInt(1))
             /\ last.op = "set_global" => globals[1].val = last.ref[1]

\* C12 witness: the same live handle has been read MaxUses times, the last
\* time by array_size.
C12_Witness ==
    /\ last.op = "array_size"
    /\ last.live
    /\ restores = [ptr |-> last.handle[1], n |-> MaxUses]
    /\ Persisted(last.handle[1]) # {}

\* C13: a read through a handle after its close call is detected and
\* reported as an error; it never succeeds as if the handle were live.
C13_UseAfterCloseDetected ==
    (last.op \in RestoreExports /\ last.handle # None /\ IsClosed(last.handle[1]))
        => last.outcome = "error"

RECURSIVE StandsFor(_, _, _)
\* The engine value v is what materializing the copied proxy p gives
StandsFor(h, v, p) ==
    CASE p.t = "Null" -> v = VNull
      [] p.t = "Undefined" -> v = VUndefined
      [] p.t = "Int" -> v = VInt(p.i)
      [] p.t = "Array" ->
            /\ IsKind(h, v, "array")
            /\ Len(h[v.id].elems) = Len(p.elems)
            /\ \A i \in DOMAIN p.elems : StandsFor(h, h[v.id].elems[i], p.elems[i])
      [] OTHER -> FALSE

\* C14: when the reply of the host decodes to an Exception proxy, the
\* adapter throws an error whose message is the exception's message and
\* returns no value; for every other decoded reply it returns the
\* materialized reply and does not throw.
C14_AdapterThrowsException ==
    (last.op = "eval_script" /\ last.called /\ last.reply # None)
        => IF last.reply[1].t = "Exception"
           THEN /\ last.returned = None
                /\ last.thrown # None
                /\ IsKind(heap, last.thrown[1], "error")
                /\ heap[last.thrown[1].id].message = Some(last.reply[1].msg)
           ELSE /\ last.thrown = None
                /\ last.returned # None
                /\ StandsFor(heap, last.returned[1], last.reply[1])

\* C14 witness: the host answered with Exception("boom", ..) and the
\* adapter threw.
C14_Witness ==
    /\ last.op = "eval_script"
    /\ last.called
    /\ last.reply # None
    /\ last.reply[1].t = "Exception"
    /\ last.thrown # None

\* C15: when the reply of the host does not decode, the adapter returns
\* undefined to the script and logs an error; it does not throw, the call
\* does not abort, and the boundary call returns the script's result.
C15_UndecodableReply ==
    (last.op = "eval_script" /\ last.called /\ last.reply = None)
        => /\ last.thrown = None
           /\ last.returned = Some(VUndefined)
           /\ last.logged
           /\ errors > 0
           /\ ~aborted
           /\ last.proxy = Some(PUndefined)

\* C15 witness: a second call with an undecodable reply was served after
\* the first one.
C15_Witness ==
    /\ last.op = "eval_script"
    /\ last.called
    /\ last.reply = None
    /\ errors = MaxErrors

\* C16: a script that throws makes the boundary call return an Exception
\* proxy with the message and the stack of the thrown Error object; the
\* call never aborts, whatever is thrown (an Error object with or without
\* message, or a value that is no Error).
C16_ThrowBecomesException ==
    (last.op = "eval_script" /\ last.thrown # None)
        => /\ ~aborted
           /\ last.proxy # None
           /\ last.proxy[1].t = "Exception"
           /\ (IsKind(heap, last.thrown[1], "error")
                 /\ heap[last.thrown[1].id].message # None
                 /\ heap[last.thrown[1].id].stk # None)
               => last.proxy[1] = PException(heap[last.thrown[1].id].message[1],
                                             heap[last.thrown[1].id].stk[1])

\* The one variant the kind of an engine value has, "none" for a kind without
\* a variant
VariantOf(h, v) ==
    CASE v.t = "null" -> "Null"
      [] v.t = "undefined" -> "Undefined"
      [] v.t = "string" -> "String"
      [] v.t = "int" -> "Int"
      [] v.t = "float" -> "Float"
      [] v.t = "bool" -> "Boolean"
      [] v.t = "ref" /\ h[v.id].kind = "error" -> "Exception"
      [] v.t = "ref" /\ h[v.id].kind # "error" -> HandleVariant(h[v.id].kind)
      [] OTHER -> "none"

\* C17: converting a value of a kind without a variant (a symbol) fails;
\* a successful conversion gives the one variant of the value's kind, and
\* Undefined only for the undefined value.
C17_NoSilentCoercion ==
    \A e \in convLog :
        /\ VariantOf(heap, e.val) = "none" => ~e.ok
        /\ e.ok => e.proxy.t = VariantOf(heap, e.val)
        /\ (e.ok /\ e.proxy.t = "Undefined") => e.val = VUndefined

\* C17 witness: a symbol was returned to the host and its conversion
\* failed, and the undefined value was converted as well.
C17_Witness ==
    /\ \E e \in convLog : e.val = VSymbol /\ ~e.ok
    /\ \E e \in convLog : e.val = VUndefined /\ e.ok

\* C18: a settlement callback that sees a pending promise sends Null and
\* completes the future; no error is raised and no Exception proxy is sent.
C18_PendingIsNull ==
    \A i \in DOMAIN calls :
        calls[i].seen = "pending"
            => /\ calls[i].convOk
               /\ calls[i].completed
               /\ calls[i].payload = Some(PNull)

\* C18 witness: a promise was rejected with a promise that is still
\* pending, and the rejection callback has run.
C18_Witness ==
    \E i \in DOMAIN calls : calls[i].seen = "pending" /\ calls[i].reject

\* What the callback is to convert: the value field of an object that has
\* one defined, the settled value otherwise
Unboxed(h, v) ==
    IF IsObject(h, v) /\ GetProp(h, v, "value") # VUndefined
    THEN GetProp(h, v, "value")
    ELSE v

\* The proxy p is the conversion of the engine value v
Denotes(h, b, p, v) ==
    CASE v.t = "int" -> p = PInt(v.i)
      [] v.t = "ref" /\ h[v.id].kind # "error" ->
            /\ p.t = HandleVariant(h[v.id].kind)
            /\ p.ptr \in DOMAIN b
            /\ b[p.ptr].ref = v.id
      [] OTHER -> FALSE

C21_PropertyPromiseBridged ==
    /\ \A e \in convLog :
          (e.val.t = "ref" /\ heap[e.val.id] \in Holders(heap))
              => e.ok /\ e.proxy.t = "NativeObject"
    /\ (last.op = "object_get_value" /\ last.live /\ IsKind(heap, last.val, "promise"))
          => /\ last.result[1].t = "CompletableFuture"
             /\ heap[last.val.id].cf = Some(last.result[1].fut)
             /\ boxes[last.result[1].ptr].ty = "PromiseContainer"
             /\ boxes[last.result[1].ptr].ref = last.val.id

\* C21 witness: the host read the key p through the handle of {p: promise,
\* n: 1} and got a CompletableFuture proxy.
C21_Witness ==
    /\ last.op = "object_get_value"
    /\ last.live
    /\ last.key = "p"
    /\ heap[last.ref[1].id] \in Holders(heap)
    /\ last.result[1].t = "CompletableFuture"

\* s is an initial part of t
IsPrefix(s, t) == Len(s) <= Len(t) /\ SubSeq(t, 1, Len(s)) = s

\* C22: a reaction job runs and a completion is issued only in a poll call;
\* a poll call runs at most one job, the first of the queue, leaves the
\* others pending, and returns true exactly when the queue was not empty.
C22_ExplicitlyDriven ==
    [][/\ (calls' # calls \/ ~IsPrefix(jobs, jobs')) => PollReturn
       /\ PollReturn =>
             /\ last'.result = Some(jobs # <<>>)
             /\ Len(calls') <= Len(calls) + 1
             /\ jobs # <<>> => IsPrefix(Tail(jobs), jobs')
             /\ jobs = <<>> => (calls' = calls /\ jobs' = jobs /\ heap' = heap)]_vars

\* C22 witness: a poll call ran one job, returned true and left another job
\* pending.
C22_Witness ==
    /\ last.op = "poll"
    /\ last.result = Some(TRUE)
    /\ calls # <<>>
    /\ jobs # <<>>

\* C23: completions are issued in job-queue order.  The queue changes only
\* by a job added at its end or by its first job removed, and a completion
\* is always the one of the first job of the queue, so a reaction job
\* queued before another is completed before it.
C23_JobQueueOrder ==
    [][/\ \/ IsPrefix(jobs, jobs')
          \/ jobs # <<>> /\ IsPrefix(Tail(jobs), jobs')
       /\ calls' # calls =>
             /\ jobs # <<>>
             /\ Head(jobs).cb # None
             /\ calls' = Append(calls, calls'[Len(calls')])
             /\ calls'[Len(calls')].fut = Head(jobs).cb[1].fut
             /\ calls'[Len(calls')].reject = Head(jobs).cb[1].reject]_vars

\* C23 witness: the futures of two promises were completed one after the
\* other.
C23_Witness ==
    \E i, j \in DOMAIN calls :
        /\ i < j
        /\ calls[i].completed
        /\ calls[j].completed
        /\ calls[i].fut # calls[j].fut

\* C24: a completion call for a future that was completed before gets an
\* error signal from the host, and the bridge callback that made the call
\* does not end as if the completion had been accepted.
C24_DuplicateSurfaced ==
    \A i \in DOMAIN calls :
        (calls[i].completed /\ HostSignal(calls, i) = "error")
            => CallbackReturn(HostSignal(calls, i)) # "true"

EntriesFor(s, c) == {i \in DOMAIN s : s[i].ctx = c}
\* This step enters with_context; this step ends a with_context call
Enters == Len(frames') = Len(frames) + 1 /\ frames'[Len(frames')].kind = "with_context"
Exits == Len(frames') = Len(frames) - 1 /\ Top.kind = "with_context"

C27_GuardRemovesOwnEntry ==
    [][Exits =>
          IF Top.pushed
          THEN /\ stack # <<>>
               /\ stack[Len(stack)] = [ctx |-> Top.ctx, tok |-> Len(frames)]
               /\ stack' = SubSeq(stack, 1, Len(stack) - 1)
          ELSE stack' = stack]_vars

\* C27 witness: with contexts A, B and A again entered, the re-entrant call
\* for A has ended and both entries are still on the stack.
C27_Witness ==
    /\ exitLog.outcome # "none"
    /\ ~exitLog.pushed
    /\ Len(exitLog.before) = 2
    /\ exitLog.after = exitLog.before
    /\ Len(frames) = 2
    /\ stack = exitLog.after

\* C28: the context stack holds at most one entry per context, at any depth
\* of nesting.
C28_OneEntryPerContext ==
    \A i, j \in DOMAIN stack : stack[i].ctx = stack[j].ctx => i = j

\* C28 witness: every context has its entry and a further with_context call
\* for one of them is in flight.
C28_Witness ==
    /\ Len(stack) = MaxContexts
    /\ Len(frames) > MaxContexts
    /\ Top.kind = "with_context"
    /\ ~trapped

\* The bridge state of a promise: 0 unbridged, 1 bridged, 2 settled
BridgeState(p) == IF p.cf = None THEN 0 ELSE IF p.state = "pending" THEN 1 ELSE 2
\* The promises bridged to the future f
BridgedTo(h, f) == {id \in PromiseIds(h) : h[id].cf = Some(f)}

\* C29: no completion is issued for a future while its promise is pending.
\* The bridge state of a promise only moves forward (unbridged, bridged,
\* settled): its future id and its settlement never change once set.  At
\* every step that issues a completion, the future's promise was bridged and
\* settled before the step.
C29_CompletionAfterSettlement ==
    [][/\ \A id \in PromiseIds(heap) :
             /\ id \in PromiseIds(heap')
             /\ BridgeState(heap'[id]) >= BridgeState(heap[id])
             /\ heap[id].cf # None => heap'[id].cf = heap[id].cf
             /\ heap[id].state # "pending" =>
                    /\ heap'[id].state = heap[id].state
                    /\ heap'[id].value = heap[id].value
       /\ \A i \in DOMAIN calls' :
             (i \notin DOMAIN calls /\ calls'[i].completed) =>
                 /\ BridgedTo(heap, calls'[i].fut) # {}
                 /\ \A id \in BridgedTo(heap, calls'[i].fut) :
                        /\ BridgeState(heap[id]) = 2
                        /\ calls'[i].reject = (heap[id].state = "rejected")]_vars

\* C29 witness: the future of a settled promise has been completed while
\* another promise is bridged and still pending, with no call for its future.
C29_Witness ==
    \E id, other \in PromiseIds(heap) :
        /\ BridgeState(heap[id]) = 2
        /\ \E i \in DOMAIN calls : calls[i].completed /\ heap[id].cf = Some(calls[i].fut)
        /\ BridgeState(heap[other]) = 1
        /\ \A i \in DOMAIN calls : heap[other].cf # Some(calls[i].fut)

\* The promise id is bridged and settled; the future of id was completed
SettledBridged(id) ==
    id \in PromiseIds(heap) /\ BridgeState(heap[id]) = 2
CompletionDelivered(id) ==
    /\ id \in PromiseIds(heap)
    /\ \E i \in DOMAIN calls : calls[i].completed /\ heap[id].cf = Some(calls[i].fut)

\* C30: when the host keeps polling, the completion for the future of every
\* bridged promise that settles is eventually delivered, and a queue that
\* holds jobs is eventually drained: a poll call returns false.
C30_EventuallyDelivered ==
    /\ \A id \in 1..(MaxHeap + QueuePromises) :
           SettledBridged(id) ~> CompletionDelivered(id)
    /\ (jobs # <<>>) ~> (last.op = "poll" /\ last.result = Some(FALSE) /\ jobs = <<>>)

\* The promise promise_create made for the record x of the host
MadePromise(x) == boxes[x.ptr].ref
\* The completions issued for the future f
Fired(f) == {i \in DOMAIN calls : calls[i].completed /\ calls[i].fut = f}

\* C31: a promise made by promise_create(cf_ptr) has cf_ptr as its future id
\* from creation: every conversion of it returns a FutureHandle with that id
\* and the host is never asked for a future for it.  promise_resolve or
\* promise_reject on its container settles the pending promise with the
\* given value, and once the promise is settled and converted and the job
\* queue is empty, the callbacks of the conversion have completed cf_ptr
\* with that settlement.
C31_HostPromiseKeepsFuture ==
    \A x \in made :
        LET id == MadePromise(x) IN
        /\ heap[id].cf = Some(x.fut)
        /\ \A e \in convLog :
               e.val = VRef(id) => e.proxy.t = "CompletableFuture" /\ e.proxy.fut = x.fut
        /\ \A i \in DOMAIN creates : boxes[creates[i].ptr].ref # id
        /\ (last.op \in {"promise_resolve", "promise_reject"} /\ last.handle = Some(x.ptr))
               => /\ last.result = Some(TRUE)
                  /\ last.before = "pending"
                        => /\ heap[id].state = SettleHow(last.op)
                           /\ heap[id].value = last.val
        /\ (heap[id].state # "pending" /\ jobs = <<>> /\ \E e \in convLog : e.val = VRef(id))
               => /\ Fired(x.fut) # {}
                  /\ \A i \in Fired(x.fut) :
                        /\ calls[i].reject = (heap[id].state = "rejected")
                        /\ calls[i].arg = heap[id].value

\* C31 witness: the host made a promise, got its FutureHandle back from a
\* conversion, resolved it with 42 through its container, and the queue has
\* run: the future was completed with Int(42).
C31_Witness ==
    \E x \in made :
        /\ \E e \in convLog : e.val = VRef(MadePromise(x))
        /\ last.op = "promise_resolve"
        /\ last.handle = Some(x.ptr)
        /\ jobs = <<>>
        /\ \E i \in Fired(x.fut) : ~calls[i].reject /\ calls[i].payload = Some(PInt(42))

\* C32: promise_resolve and promise_reject never abort on a container handle
\* the host holds: for a container made by conversion, which holds no
\* resolve or reject function, they return false and leave the promise as
\* it was.
C32_SettleNeverAborts ==
    last.op \in {"promise_resolve", "promise_reject"}
        => /\ ~aborted
           /\ last.result # None
           /\ ~HoldsFunctions(boxes[last.handle[1]]) => last.result = Some(FALSE)

\* The proxy of a value that is copied
Copied(v) ==
    CASE v.t = "int" -> PInt(v.i)
      [] v.t = "string" -> PString(v.s)
      [] v.t = "bool" -> PBoolean(v.b)
      [] v.t = "null" -> PNull
      [] v.t = "undefined" -> PUndefined

\* C33: a script's call of a host function with n arguments calls the host
\* once, with the context id and function id of that function and one Array
\* proxy of the n converted arguments in call order, for any n from zero;
\* when an argument has no proxy the host is not called and the call throws
\* the conversion error.
C33_OneHostCall ==
    (last.op = "eval_script" /\ last.adapter)
        => /\ last.to = [ctx |-> globals[1].from.ctx, fn |-> globals[1].from.fn]
           /\ IF \E i \in DOMAIN last.params : last.params[i] = VSymbol
              THEN /\ ~last.called
                   /\ last.sent = None
                   /\ last.returned = None
                   /\ last.thrown # None
                   /\ heap[last.thrown[1].id].message = Some("Unknown")
              ELSE /\ last.called
                   /\ last.sent =
                        Some(PArray([i \in 1..Len(last.params) |-> Copied(last.params[i])]))

\* C33 witness: the host function (1, 2) was called with three arguments.
C33_Witness ==
    /\ last.op = "eval_script"
    /\ last.adapter
    /\ last.called
    /\ last.to = [ctx |-> 1, fn |-> 2]
    /\ last.sent # None
    /\ Len(last.sent[1].elems) = 3

\* The live handles of the host to the engine value id
HandlesTo(id) ==
    {q \in HandlesOf("Array") \cup HandlesOf("Object") : ~IsClosed(q) /\ boxes[q].ref = id}

\* What the change recorded in c makes of the value it was made to
AfterChange(c, now) ==
    CASE c.op = "array_set" ->
            /\ now.elems[c.at + 1] = c.val
            /\ Len(now.elems) = IF c.at < Len(c.before.elems)
                                THEN Len(c.before.elems) ELSE Len(c.before.elems) + 1
            /\ \A j \in DOMAIN c.before.elems : j # c.at + 1 => now.elems[j] = c.before.elems[j]
      [] c.op = "array_add" ->
            /\ now.elems[c.at + 1] = c.val
            /\ Len(now.elems) = Len(c.before.elems) + 1
            /\ \A j \in DOMAIN c.before.elems :
                   now.elems[IF j <= c.at THEN j ELSE j + 1] = c.before.elems[j]
      [] c.op = "object_set_value" ->
            /\ c.at \in DOMAIN now.props
            /\ now.props[c.at] = c.val
            /\ \A k \in DOMAIN c.before.props : k # c.at => now.props[k] = c.before.props[k]
      [] c.op = "object_remove_value" ->
            /\ c.at \notin DOMAIN now.props
            /\ \A k \in DOMAIN c.before.props : k # c.at => now.props[k] = c.before.props[k]

\* C34: handles alias the engine value.  After a change through a handle the
\* value scripts work with is the changed one, and a read through every live
\* handle to it finds the change; after a change by script a read through
\* every live handle finds it.  A handle given as the new value stands for
\* the value it was made for.
C34_HandlesAlias ==
    (last.op \in ArrayChanges \cup ObjectChanges)
        => /\ AfterChange(last, heap[last.target])
           /\ \A q \in HandlesTo(last.target) :
                  Seen(Machine, q, last.at) =
                      IF last.op = "object_remove_value" THEN None ELSE Some(last.val)
           /\ (last.by = "handle" /\ last.val.t = "ref")
                  => last.val.id \in DOMAIN heap /\ HandlesTo(last.val.id) # {}

\* C34 witness: with two handles to one array, an element was inserted
\* through the first handle in front of the others.
C34_Witness ==
    /\ last.op = "array_add"
    /\ last.by = "handle"
    /\ last.at = 0
    /\ Cardinality(HandlesTo(last.target)) = 2
    /\ last.handle # Some(2)

\* The boxes that are handles to arrays, objects and functions
HandleBoxes(bx) == {b \in DOMAIN bx : bx[b].ty \in {"Array", "Object", "Function"}}
\* The handles no call has released
LiveHandles(bx, cl) == {b \in HandleBoxes(bx) : \A c \in cl : c.ptr # b}
\* The conversions of an array, object or function a step has made
Persists(log) ==
    {e \in log : e.ok /\ e.proxy.t \in {"NativeArray", "NativeObject", "Function"}}

\* A step allocates a handle for every conversion of an array, object or
\* function it makes, at an address no box has, and releases only the handle
\* a close call names
KeepsHandles ==
    /\ \A b \in DOMAIN boxes : b \in DOMAIN boxes' /\ boxes'[b] = boxes[b]
    /\ \A e \in Persists(convLog') \ Persists(convLog) :
           /\ e.proxy.ptr \notin DOMAIN boxes
           /\ e.proxy.ptr \in HandleBoxes(boxes')
           /\ boxes'[e.proxy.ptr].ref = e.val.id
    /\ closed \subseteq closed'
    /\ closed' # closed
          => /\ last'.op \in CloseExports
             /\ closed' = closed \cup {[ptr |-> last'.handle[1], by |-> last'.op]}
             /\ boxes' = boxes
    /\ Cardinality(LiveHandles(boxes', closed')) =
           Cardinality(LiveHandles(boxes, closed))
               + Cardinality(HandleBoxes(boxes') \ HandleBoxes(boxes))
               - Cardinality(closed' \ closed)

IntegerValued(v) == v.t = "int" \/ (v.t = "float" /\ v.f \in IntegralFloats)
\* The conversions of numbers
NumberConversions == {e \in convLog : e.val.t \in {"int", "float"}}

\* C36 as stated, for numbers: every number with an integer value is
\* converted to Int and every other number to Float.  Fails for 2^31.
C36_IntegerValuedIsInt ==
    \A e \in NumberConversions :
        e.ok /\ e.proxy.t = (IF IntegerValued(e.val) THEN "Int" ELSE "Float")

\* C36: convert classifies by the most specific kind first: null and
\* undefined before everything, a promise gives a FutureHandle, a function
\* Function(name, handle), an Error object Exception(message, stack), an
\* array NativeArray, and only another object NativeObject; a number the
\* engine holds as a 32-bit integer gives Int, and every other number,
\* integer-valued ones past the 32-bit range included, gives Float.
C36_MostSpecificKindFirst ==
    \A e \in convLog :
        /\ e.val.t = "null" => e.proxy = PNull
        /\ e.val.t = "undefined" => e.proxy = PUndefined
        /\ e.val.t = "int" => e.proxy = PInt(e.val.i)
        /\ e.val.t = "float" => e.proxy = PFloat(e.val.f)
        /\ e.val.t = "ref" =>
              /\ e.ok
              /\ e.proxy.t =
                    (CASE heap[e.val.id].kind = "promise" -> "CompletableFuture"
                       [] heap[e.val.id].kind = "function" -> "Function"
                       [] heap[e.val.id].kind = "error" -> "Exception"
                       [] heap[e.val.id].kind = "array" -> "NativeArray"
                       [] OTHER -> "NativeObject")
              /\ heap[e.val.id].kind = "function" => e.proxy.name = heap[e.val.id].name
              /\ heap[e.val.id].kind = "error" =>
                    e.proxy = PException(heap[e.val.id].message[1], heap[e.val.id].stk[1])

\* C36 witness: a promise, an Error object, an integer and 2^31 have all
\* been converted.
C36_Witness ==
    /\ \E e \in convLog : e.val.t = "ref" /\ heap[e.val.id].kind = "promise"
    /\ \E e \in convLog : e.val.t = "ref" /\ heap[e.val.id].kind = "error"
    /\ \E e \in convLog : e.val = VInt(42) /\ e.proxy = PInt(42)
    /\ \E e \in convLog : e.val = VFloat("2147483648.0") /\ e.proxy.t = "Float"

\* The engine value v is what the proxy p stands for: a copy of a copied
\* proxy, the value behind a handle, an array of copies of an inline Array
Stands(v, p) ==
    CASE p.t \in {"NativeArray", "NativeObject", "Function"} -> v = VRef(boxes[p.ptr].ref)
      [] p.t = "Array" ->
            /\ v.t = "ref"
            /\ heap[v.id].kind = "array"
            /\ Len(heap[v.id].elems) = Len(p.elems)
            /\ \A j \in DOMAIN p.elems : Copied(heap[v.id].elems[j]) = p.elems[j]
      [] OTHER -> v.t # "ref" /\ Copied(v) = p

\* C37: as the argument list of invoke or call_function an inline Array of
\* n elements passes its n elements in order, Undefined passes no argument,
\* and every other proxy, Null and NativeArray included, passes itself as
\* the one argument.
C37_ArgumentList ==
    (last.op \in {"invoke", "call_function"})
        => /\ Len(last.received) = last.count
           /\ CASE last.args.t = "Array" ->
                     /\ Len(last.received) = Len(last.args.elems)
                     /\ \A i \in DOMAIN last.args.elems :
                            Stands(last.received[i], last.args.elems[i])
                [] last.args.t = "Undefined" -> last.received = <<>>
                [] OTHER ->
                     /\ Len(last.received) = 1
                     /\ Stands(last.received[1], last.args)

\* C37 witness: call_function was called with a NativeArray handle as the
\* argument list and the function got the array as its one argument.
C37_Witness ==
    /\ last.op = "call_function"
    /\ last.args.t = "NativeArray"
    /\ Len(last.received) = 1
    /\ heap[last.received[1].id].kind = "array"

\* C38: the packed word round-trips: for every address and length below
\* 2^32 (here 2^PtrBits) the adapter recovers from (address << 32) | length
\* exactly the address and the length, also for an address in the upper
\* half of the range, where the word is a negative long.
C38_PackedWordRoundTrip ==
    (last.op = "call_java_function")
        => /\ last.got = last.sent
           /\ last.got.ptr \in 0..(Half - 1)
           /\ (last.sent.ptr >= Half \div 2) <=> (last.word < 0)

\* C38 witness: the highest address with the longest length came back
\* through the adapter that shifts the signed word.
C38_Witness ==
    /\ last.op = "call_java_function"
    /\ last.site = "js_to_java_proxy"
    /\ last.sent = [ptr |-> Half - 1, len |-> Half - 1]
    /\ last.word = -1
    /\ last.got.ptr = Half - 1

====
